---------------------------- MODULE Spec2Model ----------------------------
(***************************************************************************)
(* Model of the mailbox chess board of src/src/board.rs: the position      *)
(* (squares, turn, castling_rights, en_passant_target), the pseudo-legal   *)
(* move generators, the legality filter, make_move and perft.              *)
(***************************************************************************)
EXTENDS Integers, Sequences, FiniteSets, TLC

\* squares, turn, castling_rights, en_passant_target: the fields of Board.
\* move_list: the list generate_moves returns for the position, from which the
\*        driver takes the move it makes next.
\* start: the name of the FEN the game was set up from.
\* ply, last_move, prev: the number of make_move calls so far, the last move
\*        made and the Board it was made on.
\* bb: a BitBoard handed to shift, or the bits a BitboardIterator holds.
\* move_generator: the MoveGenerator under construction (its three lookups).
\* position: a Position.
\* called: the last call made on bb, move_generator or position, on a FEN
\*        parser, a square conversion or the search, or the last command the
\*        command loop read, with its arguments and what it returned.
VARIABLES squares, turn, castling_rights, en_passant_target, move_list,
          start, ply, last_move, prev, bb, move_generator, position, called

vars == <<squares, turn, castling_rights, en_passant_target, move_list,
          start, ply, last_move, prev, bb, move_generator, position, called>>

(***************************************************************************)
(* Types of board.rs                                                       *)
(***************************************************************************)
White == "White"
Black == "Black"
Color == {White, Black}

Pawn   == "Pawn"
Knight == "Knight"
Bishop == "Bishop"
Rook   == "Rook"
Queen  == "Queen"
King   == "King"
PieceType == {Pawn, Knight, Bishop, Rook, Queen, King}

\* Option::None of Option<Piece> and of Option<PieceType>
None == [color |-> "None", piece_type |-> "None"]
NoPromotion == "None"

Piece(color, piece_type) == [color |-> color, piece_type |-> piece_type]

\* Option::None of Option<Square>: no index.  (make_move substitutes 64 for
\* it, unwrap_or(64), to compare it with the squares of the move.)
NoSquare == -1

Square == 0..63

Move_new(from, to) == [from |-> from, to |-> to, promotion |-> NoPromotion]

Move_with_promotion(from, to, promotion) ==
    [from |-> from, to |-> to, promotion |-> promotion]

Opposite(color) == IF color = White THEN Black ELSE White

coord_to_index(rank, file) == rank * 8 + file

RankOf(index) == index \div 8
FileOf(index) == index % 8

OnBoard(rank, file) == rank >= 0 /\ rank < 8 /\ file >= 0 /\ file < 8

(***************************************************************************)
(* Board::from_fen.  A FEN is given as its whitespace-separated parts, each *)
(* a sequence of characters: placement, side, castling, en-passant target   *)
(* (the two clocks are never read).  The result is Ok with a Board, Err, or *)
(* a panic.  overflow_checks tells the build: with the checks (debug) an    *)
(* unsigned subtraction below 0 panics, without them (release) it wraps.    *)
(***************************************************************************)
Fen(pieces, side, castling, ep) == <<pieces, <<side>>, castling, ep>>

\* The characters of the model are the printable ASCII characters, each a
\* string of length one; Ascii[n] is the character of code 31 + n (the
\* double quote, the backslash and the backtick, which no input here holds,
\* by name).
Ascii ==
    <<" ", "!", "quote", "#", "$", "%", "&", "'", "(", ")", "*", "+", ",", "-", ".", "/",
      "0", "1", "2", "3", "4", "5", "6", "7", "8", "9", ":", ";", "<", "=", ">", "?",
      "@", "A", "B", "C", "D", "E", "F", "G", "H", "I", "J", "K", "L", "M", "N", "O",
      "P", "Q", "R", "S", "T", "U", "V", "W", "X", "Y", "Z", "[", "backslash", "]", "^", "_",
      "backtick", "a", "b", "c", "d", "e", "f", "g", "h", "i", "j", "k", "l", "m", "n", "o",
      "p", "q", "r", "s", "t", "u", "v", "w", "x", "y", "z", "{", "|", "}", "~">>

\* c as u8
CharCode(c) == 31 + (CHOOSE n \in 1..Len(Ascii) : Ascii[n] = c)

\* c.to_digit(10): the value of a decimal digit, -1 (None) otherwise.
DigitValue(c) ==
    CASE c = "0" -> 0 [] c = "1" -> 1 [] c = "2" -> 2 [] c = "3" -> 3
      [] c = "4" -> 4 [] c = "5" -> 5 [] c = "6" -> 6 [] c = "7" -> 7
      [] c = "8" -> 8 [] c = "9" -> 9 [] OTHER -> -1

\* The builds: with the checks of a debug build (overflow checks, the check
\* of a transmuted enum) or, in a release build, without them.
Builds == BOOLEAN

\* a - b on u8: Ok with the difference; below 0 a panic with the overflow
\* checks, and the difference wrapped without them.
SubU8(a, b, overflow_checks) ==
    IF a >= b THEN [tag |-> "Ok", value |-> a - b]
    ELSE IF overflow_checks THEN [tag |-> "Panic"]
    ELSE [tag |-> "Ok", value |-> a - b + 256]

\* file_char as u8 - b'a'
FileValue(c, overflow_checks) == SubU8(CharCode(c), 97, overflow_checks)

\* rank_char as u8 - b'1'
RankValue(c, overflow_checks) == SubU8(CharCode(c), 49, overflow_checks)

\* char::is_uppercase
IsUppercase(c) == CharCode(c) \in 65..90

PieceTypeOfChar(c) ==
    CASE c \in {"p", "P"} -> Pawn
      [] c \in {"n", "N"} -> Knight
      [] c \in {"b", "B"} -> Bishop
      [] c \in {"r", "R"} -> Rook
      [] c \in {"q", "Q"} -> Queen
      [] c \in {"k", "K"} -> King
      [] OTHER -> "None"

EmptySquares == [i \in Square |-> None]

\* One turn of the loop over the placement characters (board.rs:84-109), on
\* the loop's state st (tag, squares, rank, file).  rank and file are usize:
\* `rank -= 1` at rank 0 panics with the overflow checks and wraps without
\* them (the wrapped index is then off the board unless file brings it back);
\* squares[index] panics when index is not in 0..63; an unknown letter
\* returns Err.
PlacePiece(st, c, overflow_checks) ==
    IF c = "/"
    THEN IF overflow_checks /\ st.rank = 0 THEN [st EXCEPT !.tag = "Panic"]
         ELSE [st EXCEPT !.rank = @ - 1, !.file = 0]
    ELSE IF DigitValue(c) >= 0 THEN [st EXCEPT !.file = @ + DigitValue(c)]
    ELSE IF PieceTypeOfChar(c) = "None" THEN [st EXCEPT !.tag = "Err"]
    ELSE LET color == IF IsUppercase(c) THEN White ELSE Black
             index == st.rank * 8 + st.file
         IN  IF index \notin Square THEN [st EXCEPT !.tag = "Panic"]
             ELSE [st EXCEPT !.squares[index] = Piece(color, PieceTypeOfChar(c)),
                             !.file = @ + 1]

\* The loop over the characters first..last of the placement, from state st:
\* the first half of the characters, then the second; after an Err or a panic
\* nothing more is read.
RECURSIVE PlacePieces(_, _, _, _, _)
PlacePieces(pieces, first, last, st, overflow_checks) ==
    IF first > last THEN st
    ELSE IF first = last THEN PlacePiece(st, pieces[first], overflow_checks)
    ELSE LET mid == (first + last) \div 2
             read == PlacePieces(pieces, first, mid, st, overflow_checks)
         IN  IF read.tag # "Ok" THEN read
             ELSE PlacePieces(pieces, mid + 1, last, read, overflow_checks)

\* The en-passant field (board.rs:119-126): the first two characters are
\* unwrapped, then the file and the rank are subtracted in u8; the index
\* rank * 8 + file is stored as it comes, on the board or not.
en_passant_of(field, overflow_checks) ==
    IF field = <<"-">> THEN [tag |-> "Ok", target |-> NoSquare]
    ELSE IF Len(field) < 2 THEN [tag |-> "Panic"]
    ELSE LET file == FileValue(field[1], overflow_checks)
             rank == RankValue(field[2], overflow_checks)
         IN  IF file.tag = "Panic" THEN [tag |-> "Panic"]
             ELSE IF rank.tag = "Panic" THEN [tag |-> "Panic"]
             ELSE [tag |-> "Ok", target |-> rank.value * 8 + file.value]

from_fen(parts, overflow_checks) ==
    IF Len(parts) < 2 THEN [tag |-> "Err", error |-> "menos de 2 partes"]
    ELSE LET placed == PlacePieces(parts[1], 1, Len(parts[1]),
                                   [tag |-> "Ok", squares |-> EmptySquares,
                                    rank |-> 7, file |-> 0],
                                   overflow_checks)
         IN  IF placed.tag = "Panic" THEN [tag |-> "Panic"]
             ELSE IF placed.tag = "Err"
                  THEN [tag |-> "Err", error |-> "pieza desconocida"]
             ELSE IF parts[2] \notin {<<"w">>, <<"b">>}
                  THEN [tag |-> "Err", error |-> "turno desconocido"]
             \* parts[2] and parts[3] are indexed without a length check
             ELSE IF Len(parts) < 4 THEN [tag |-> "Panic"]
             ELSE LET en_passant == en_passant_of(parts[4], overflow_checks)
                  IN  IF en_passant.tag = "Panic" THEN [tag |-> "Panic"]
                      ELSE [tag |-> "Ok",
                            board |->
                              [squares |-> placed.squares,
                               turn |-> IF parts[2] = <<"w">> THEN White ELSE Black,
                               castling_rights |-> parts[3],
                               en_passant_target |-> en_passant.target]]

(***************************************************************************)
(* Move generation (pseudo-legal), in the order the code pushes the moves   *)
(***************************************************************************)
KnightJumps == << <<-2, -1>>, <<-2, 1>>, <<-1, -2>>, <<-1, 2>>,
                  <<1, -2>>, <<1, 2>>, <<2, -1>>, <<2, 1>> >>

KingDirections == << <<-1, -1>>, <<-1, 0>>, <<-1, 1>>, <<0, -1>>,
                     <<0, 1>>, <<1, -1>>, <<1, 0>>, <<1, 1>> >>

BishopDirections == << <<-1, -1>>, <<-1, 1>>, <<1, -1>>, <<1, 1>> >>

RookDirections == << <<-1, 0>>, <<1, 0>>, <<0, -1>>, <<0, 1>> >>

QueenDirections == KingDirections

PromotionPieces == <<Queen, Rook, Bishop, Knight>>

\* The part of the loops of gen_knight_moves / gen_king_moves that does not
\* read the board: the targets of the deltas that pass the bounds check
\* (to_rank, to_file in 0..7), in the order of the deltas.
RECURSIVE StepTargets(_, _, _)
StepTargets(index, deltas, i) ==
    IF i > Len(deltas) THEN << >>
    ELSE LET to_rank == RankOf(index) + deltas[i][1]
             to_file == FileOf(index) + deltas[i][2]
         IN  (IF OnBoard(to_rank, to_file)
              THEN << coord_to_index(to_rank, to_file) >>
              ELSE << >>) \o StepTargets(index, deltas, i + 1)

KnightTargets == [index \in Square |-> StepTargets(index, KnightJumps, 1)]

KingTargets == [index \in Square |-> StepTargets(index, KingDirections, 1)]

\* Variant of StepMoves that pushes a move onto every target square, also
\* onto a piece of the side to move.
StepMovesOntoAny(b, index, targets) ==
    [i \in 1..Len(targets) |-> Move_new(index, targets[i])]

\* The match on the target square: a move is pushed unless the target holds
\* a piece of the side to move.
StepMoves(b, index, targets) ==
    LET free == SelectSeq(targets, LAMBDA to_index : b.squares[to_index].color # b.turn)
    IN  [i \in 1..Len(free) |-> Move_new(index, free[i])]

gen_knight_moves(b, index) == StepMoves(b, index, KnightTargets[index])

gen_king_moves(b, index) == StepMoves(b, index, KingTargets[index])

\* The squares the while loop of gen_sliding_moves visits along one direction
\* on an empty board: from the first step to the edge.
RECURSIVE RaySquares(_, _, _)
RaySquares(to_rank, to_file, delta) ==
    IF ~OnBoard(to_rank, to_file) THEN << >>
    ELSE << coord_to_index(to_rank, to_file) >>
         \o RaySquares(to_rank + delta[1], to_file + delta[2], delta)

Rays(index, directions) ==
    [d \in 1..Len(directions) |->
        RaySquares(RankOf(index) + directions[d][1],
                   FileOf(index) + directions[d][2], directions[d])]

BishopRays == [index \in Square |-> Rays(index, BishopDirections)]
RookRays   == [index \in Square |-> Rays(index, RookDirections)]
QueenRays  == [index \in Square |-> Rays(index, QueenDirections)]

\* Variant of SlideRay that does not stop at an enemy piece.
RECURSIVE SlideRayThrough(_, _, _, _)
SlideRayThrough(b, index, ray, i) ==
    IF i > Len(ray) THEN << >>
    ELSE LET target_square == b.squares[ray[i]]
         IN  IF target_square # None /\ target_square.color = b.turn
             THEN << >>
             ELSE << Move_new(index, ray[i]) >> \o SlideRayThrough(b, index, ray, i + 1)

\* The while loop of gen_sliding_moves along one ray: empty squares are
\* pushed, the first occupied square is pushed when it holds an enemy piece,
\* and the walk stops there.
RECURSIVE SlideRay(_, _, _, _)
SlideRay(b, index, ray, i) ==
    IF i > Len(ray) THEN << >>
    ELSE LET target_square == b.squares[ray[i]]
         IN  IF target_square # None
             THEN IF target_square.color # b.turn
                  THEN << Move_new(index, ray[i]) >>
                  ELSE << >>
             ELSE << Move_new(index, ray[i]) >> \o SlideRay(b, index, ray, i + 1)

RECURSIVE SlidingFrom(_, _, _, _)
SlidingFrom(b, index, rays, d) ==
    IF d > Len(rays) THEN << >>
    ELSE SlideRay(b, index, rays[d], 1) \o SlidingFrom(b, index, rays, d + 1)

gen_sliding_moves(b, index, rays) == SlidingFrom(b, index, rays, 1)

\* Variant of Promotions that pushes the queen promotion only.
PromotionsQueenOnly(index, to_index) ==
    << Move_with_promotion(index, to_index, Queen) >>

\* The loop over the four promotion pieces.
Promotions(index, to_index) ==
    [i \in 1..4 |-> Move_with_promotion(index, to_index, PromotionPieces[i])]

\* Variant of PawnCapture that captures a piece of either colour.
PawnCaptureAnyColour(b, index, piece, direction, promotion_rank, delta_file) ==
    LET capture_file == FileOf(index) + delta_file
        capture_rank == RankOf(index) + direction
    IN  IF capture_file >= 0 /\ capture_file < 8 /\ capture_rank >= 0 /\ capture_rank < 8
        THEN LET capture_index == coord_to_index(capture_rank, capture_file)
             IN  IF b.squares[capture_index] # None
                 THEN << Move_new(index, capture_index) >>
                 ELSE << >>
        ELSE << >>

\* One iteration of the loop over the two capture files.
PawnCapture(b, index, piece, direction, promotion_rank, delta_file) ==
    LET capture_file == FileOf(index) + delta_file
        capture_rank == RankOf(index) + direction
    IN  IF capture_file >= 0 /\ capture_file < 8 /\ capture_rank >= 0 /\ capture_rank < 8
        THEN LET capture_index == coord_to_index(capture_rank, capture_file)
                 target_piece == b.squares[capture_index]
             IN  IF target_piece # None
                 THEN IF target_piece.color # piece.color
                      THEN IF capture_rank = promotion_rank
                           THEN Promotions(index, capture_index)
                           ELSE << Move_new(index, capture_index) >>
                      ELSE << >>
                 ELSE IF b.en_passant_target # NoSquare
                         /\ b.en_passant_target = capture_index
                      THEN << Move_new(index, capture_index) >>
                      ELSE << >>
        ELSE << >>

gen_pawn_moves(b, index) ==
    LET piece == b.squares[index]
        rank == RankOf(index)
        file == FileOf(index)
        direction == IF piece.color = White THEN 1 ELSE -1
        start_rank == IF piece.color = White THEN 1 ELSE 6
        promotion_rank == IF piece.color = White THEN 7 ELSE 0
        forward_rank == rank + direction
        forward ==
            IF forward_rank >= 0 /\ forward_rank < 8
            THEN LET forward_index == coord_to_index(forward_rank, file)
                 IN  IF b.squares[forward_index] = None
                     THEN IF forward_rank = promotion_rank
                          THEN Promotions(index, forward_index)
                          ELSE << Move_new(index, forward_index) >>
                     ELSE << >>
            ELSE << >>
        double ==
            IF rank = start_rank
            THEN LET double_forward_index == coord_to_index(rank + 2 * direction, file)
                 IN  IF b.squares[double_forward_index] = None
                        /\ b.squares[coord_to_index(forward_rank, file)] = None
                     THEN << Move_new(index, double_forward_index) >>
                     ELSE << >>
            ELSE << >>
    IN  IF piece = None THEN << >>
        ELSE forward \o double
             \o PawnCapture(b, index, piece, direction, promotion_rank, -1)
             \o PawnCapture(b, index, piece, direction, promotion_rank, 1)

PieceMoves(b, index) ==
    LET piece == b.squares[index]
    IN  IF piece = None \/ piece.color # b.turn THEN << >>
        ELSE CASE piece.piece_type = Pawn   -> gen_pawn_moves(b, index)
               [] piece.piece_type = Knight -> gen_knight_moves(b, index)
               [] piece.piece_type = Bishop -> gen_sliding_moves(b, index, BishopRays[index])
               [] piece.piece_type = Rook   -> gen_sliding_moves(b, index, RookRays[index])
               [] piece.piece_type = Queen  -> gen_sliding_moves(b, index, QueenRays[index])
               [] piece.piece_type = King   -> gen_king_moves(b, index)

RECURSIVE Concat(_, _)
Concat(lists, i) == IF i > Len(lists) THEN << >> ELSE lists[i] \o Concat(lists, i + 1)

generate_pseudo_moves(b) ==
    Concat([n \in 1..64 |-> PieceMoves(b, n - 1)], 1)

(***************************************************************************)
(* make_move                                                               *)
(***************************************************************************)
\* Variant of en_passant_captured that takes the captured pawn to stand on
\* the target square itself.
en_passant_captured_on_target(b, mv) ==
    IF b.squares[mv.from].piece_type = Pawn /\ mv.to = b.en_passant_target
    THEN mv.to
    ELSE NoSquare

\* The en-passant capture of make_move: the square of the pawn that is
\* removed, NoSquare when the move is no pawn move onto en_passant_target.
en_passant_captured(b, mv) ==
    LET piece == b.squares[mv.from]
        to_rank == RankOf(mv.to)
        to_file == FileOf(mv.to)
        captured_pawn_rank == IF b.turn = White THEN to_rank - 1 ELSE to_rank + 1
    IN  IF piece.piece_type = Pawn /\ mv.to = b.en_passant_target
        THEN coord_to_index(captured_pawn_rank, to_file)
        ELSE NoSquare

\* Variant of new_en_passant_target without the reset: the old target stays
\* unless a double push sets a new one.
en_passant_target_kept(b, mv) ==
    LET piece == b.squares[mv.from]
        from_rank == RankOf(mv.from)
        to_rank == RankOf(mv.to)
    IN  IF piece.piece_type = Pawn
           /\ \/ (piece.color = White /\ from_rank = 1 /\ to_rank = 3)
              \/ (piece.color = Black /\ from_rank = 6 /\ to_rank = 4)
        THEN coord_to_index((from_rank + to_rank) \div 2, mv.to % 8)
        ELSE b.en_passant_target

\* Variant of new_en_passant_target that takes the rank the pawn lands on.
en_passant_target_on_pawn(b, mv) ==
    LET piece == b.squares[mv.from]
        from_rank == RankOf(mv.from)
        to_rank == RankOf(mv.to)
    IN  IF piece.piece_type = Pawn
           /\ \/ (piece.color = White /\ from_rank = 1 /\ to_rank = 3)
              \/ (piece.color = Black /\ from_rank = 6 /\ to_rank = 4)
        THEN coord_to_index(to_rank, mv.to % 8)
        ELSE NoSquare

\* en_passant_target after make_move: reset, then set by a pawn double push.
new_en_passant_target(b, mv) ==
    LET piece == b.squares[mv.from]
        from_rank == RankOf(mv.from)
        to_rank == RankOf(mv.to)
        ep_rank == (from_rank + to_rank) \div 2
        ep_file == mv.to % 8
    IN  IF piece.piece_type = Pawn
           /\ \/ (piece.color = White /\ from_rank = 1 /\ to_rank = 3)
              \/ (piece.color = Black /\ from_rank = 6 /\ to_rank = 4)
        THEN coord_to_index(ep_rank, ep_file)
        ELSE NoSquare

\* Variant of new_castling_rights that derives the rights from where the
\* kings and rooks stand after the move.
rights_from_placement(b, mv) ==
    LET sq == [b.squares EXCEPT ![mv.from] = None, ![mv.to] = b.squares[mv.from]]
        held(r) ==
            CASE r = "K" -> sq[4] = Piece(White, King) /\ sq[7] = Piece(White, Rook)
              [] r = "Q" -> sq[4] = Piece(White, King) /\ sq[0] = Piece(White, Rook)
              [] r = "k" -> sq[60] = Piece(Black, King) /\ sq[63] = Piece(Black, Rook)
              [] r = "q" -> sq[60] = Piece(Black, King) /\ sq[56] = Piece(Black, Rook)
    IN  SelectSeq(<<"K", "Q", "k", "q">>, held)

\* castling_rights after make_move: no statement of make_move assigns it.
new_castling_rights(b, mv) == b.castling_rights

\* Variant of make_move that sets the moved piece on mv.to also when the move
\* carries a promotion.
make_move_without_promotion(b, mv) ==
    LET piece == b.squares[mv.from]
        captured_pawn_index == en_passant_captured(b, mv)
        taken == [b.squares EXCEPT ![mv.from] = None]
        after_ep == IF captured_pawn_index # NoSquare
                    THEN [taken EXCEPT ![captured_pawn_index] = None]
                    ELSE taken
    IN  [squares |-> [after_ep EXCEPT ![mv.to] = piece],
         turn |-> Opposite(b.turn),
         castling_rights |-> new_castling_rights(b, mv),
         en_passant_target |-> new_en_passant_target(b, mv)]

make_move(b, mv) ==
    LET piece == b.squares[mv.from]
        captured_pawn_index == en_passant_captured(b, mv)
        taken == [b.squares EXCEPT ![mv.from] = None]
        after_ep == IF captured_pawn_index # NoSquare
                    THEN [taken EXCEPT ![captured_pawn_index] = None]
                    ELSE taken
        placed == IF mv.promotion # NoPromotion
                  THEN Piece(piece.color, mv.promotion)
                  ELSE piece
    IN  [squares |-> [after_ep EXCEPT ![mv.to] = placed],
         turn |-> Opposite(b.turn),
         castling_rights |-> new_castling_rights(b, mv),
         en_passant_target |-> new_en_passant_target(b, mv)]

(***************************************************************************)
(* Legality filter                                                         *)
(***************************************************************************)
\* find_king: the lowest square holding the king of the colour, or NoSquare
find_king(b, color) ==
    LET king == Piece(color, King)
        kings == {i \in Square : b.squares[i] = king}
    IN  IF kings = {} THEN NoSquare
        ELSE CHOOSE i \in kings : \A j \in kings : i <= j

\* Variant of is_king_attacked that looks for the king of the side to move,
\* whose own pieces generate the moves scanned.
is_own_king_attacked(b, color) ==
    LET king_pos == find_king(b, b.turn)
    IN  IF king_pos = NoSquare THEN FALSE
        ELSE \E index \in Square :
                 LET moves == PieceMoves(b, index)
                 IN  \E i \in 1..Len(moves) : moves[i].to = king_pos

\* The moves scanned are those of generate_pseudo_moves(b), piece by piece:
\* the king is attacked when some move of some piece targets its square.
is_king_attacked(b, color) ==
    LET king_pos == find_king(b, color)
    IN  IF king_pos = NoSquare THEN FALSE
        ELSE \E index \in Square :
                 LET moves == PieceMoves(b, index)
                 IN  \E i \in 1..Len(moves) : moves[i].to = king_pos

\* Variant of the filter that tests the position before the move, as
\* is_in_check does, instead of the position after it.
IsLegalBeforeMove(b, mv) ==
    ~is_king_attacked([b EXCEPT !.turn = Opposite(b.turn)], b.turn)

\* The filter closure of generate_moves.
IsLegal(b, mv) == ~is_king_attacked(make_move(b, mv), b.turn)

generate_moves(b) == SelectSeq(generate_pseudo_moves(b), LAMBDA mv : IsLegal(b, mv))

RECURSIVE SumSeq(_, _)
SumSeq(s, i) == IF i > Len(s) THEN 0 ELSE s[i] + SumSeq(s, i + 1)

RECURSIVE perft(_, _)
perft(b, depth) ==
    IF depth = 0 THEN 1
    ELSE LET moves == generate_moves(b)
             nodes == [i \in 1..Len(moves) |-> perft(make_move(b, moves[i]), depth - 1)]
         IN  SumSeq(nodes, 1)


(***************************************************************************)
(* The bitboard code: bitboard.rs, position.rs, chess_move.rs and the      *)
(* generators.  A BitBoard (u64) is the set of its set bits, bit i being   *)
(* square i (rank * 8 + file): | is \cup, & is \cap, ^ the symmetric       *)
(* difference, ! the complement within 0..63, and a shift moves every bit  *)
(* and drops the bits that leave the 64-bit word.                          *)
(***************************************************************************)
EMPTY == {}

BitXor(a, b) == (a \ b) \cup (b \ a)

BitNot(a) == Square \ a

Shl(a, n) == {i + n : i \in a} \cap Square

Shr(a, n) == {i - n : i \in a} \cap Square

RANK_1 == 0..7
RANK_3 == Shl(RANK_1, 16)
RANK_7 == Shl(RANK_1, 48)
RANK_8 == Shl(RANK_1, 56)

FILE_A == {i \in Square : i % 8 = 0}
FILE_B == Shl(FILE_A, 1)
FILE_G == Shl(FILE_A, 6)
FILE_H == Shl(FILE_A, 7)

from_square(sq) == Shl({0}, sq)

\* u64::swap_bytes: byte k (rank k) becomes byte 7 - k.
reverse_colors(a) == {(7 - (i \div 8)) * 8 + (i % 8) : i \in a}

\* u64::trailing_zeros: the lowest set bit, 64 for the empty bitboard.
trailing_zeros(a) == IF a = {} THEN 64 ELSE CHOOSE i \in a : \A j \in a : i <= j

\* Squares::from_index transmutes the index (defs.rs:160-162).  For an index
\* that is no square the behaviour is undefined: a build with the checks
\* aborts the process at the transmute, a build without them hands the raw
\* index back.
from_index(index, ub_checks) ==
    IF index \in Square THEN [tag |-> "Ok", square |-> index]
    ELSE IF ub_checks THEN [tag |-> "Abort"]
    ELSE [tag |-> "Ok", square |-> index]

to_square(a, ub_checks) == from_index(trailing_zeros(a), ub_checks)

\* BitboardIterator: the squares of the set bits, least significant first.
BitIter(a) == SelectSeq([n \in 1..64 |-> n - 1], LAMBDA i : i \in a)

UP    == 8
DOWN  == -8
RIGHT == 1
LEFT  == -1

king_itr ==
    <<UP, DOWN, RIGHT, LEFT, UP + RIGHT, UP + LEFT, DOWN + RIGHT, DOWN + LEFT>>

\* Variant of shift without the file masks.
shift_unmasked(a, direction) ==
    IF direction <= 0 THEN Shr(a, -direction) ELSE Shl(a, direction)

shift(a, direction) ==
    CASE direction = UP           -> Shl(a, 8)
      [] direction = DOWN         -> Shr(a, 8)
      [] direction = LEFT         -> Shr(a \cap BitNot(FILE_A), 1)
      [] direction = RIGHT        -> Shl(a \cap BitNot(FILE_H), 1)
      [] direction = UP + LEFT    -> Shl(a \cap BitNot(FILE_A), 7)
      [] direction = UP + RIGHT   -> Shl(a \cap BitNot(FILE_H), 9)
      [] direction = DOWN + LEFT  -> Shr(a \cap BitNot(FILE_A), 9)
      [] direction = DOWN + RIGHT -> Shr(a \cap BitNot(FILE_H), 7)
      [] OTHER -> IF direction <= 0 THEN Shr(a, -direction)
                  ELSE Shl(a, direction)

(***************************************************************************)
(* generators/knight_moves.rs, king_moves.rs, sliding_moves.rs: the        *)
(* attack tables                                                           *)
(***************************************************************************)
\* Variant of the knight table with the two-file jumps masked on one file only.
generate_knight_moves_one_file_mask(a) ==
    UNION {Shl(a \cap BitNot(FILE_H), 17), Shl(a \cap BitNot(FILE_H), 10),
           Shr(a \cap BitNot(FILE_H), 6), Shr(a \cap BitNot(FILE_H), 15),
           Shr(a \cap BitNot(FILE_A), 17), Shr(a \cap BitNot(FILE_A), 10),
           Shl(a \cap BitNot(FILE_A), 6), Shl(a \cap BitNot(FILE_A), 15)}

\* upUpRight | upRightRight | downRightRight | downDownRight | downDownLeft
\* | downLeftLeft | upLeftLeft | upUpLeft
generate_knight_moves(a) ==
    UNION {Shl(a \cap BitNot(FILE_H), 17),
           Shl((a \cap BitNot(FILE_H)) \cap BitNot(FILE_G), 10),
           Shr((a \cap BitNot(FILE_H)) \cap BitNot(FILE_G), 6),
           Shr(a \cap BitNot(FILE_H), 15),
           Shr(a \cap BitNot(FILE_A), 17),
           Shr((a \cap BitNot(FILE_A)) \cap BitNot(FILE_B), 10),
           Shl((a \cap BitNot(FILE_A)) \cap BitNot(FILE_B), 6),
           Shl(a \cap BitNot(FILE_A), 15)}

generate_king_moves(a) ==
    UNION {shift(a, king_itr[n]) : n \in 1..Len(king_itr)}

generate_rook_moves(square) ==
    LET rank == square \div 8
        file == square % 8
    IN  UNION {Shl({0}, r * 8 + file) : r \in (0..7) \ {rank}}
        \cup UNION {Shl({0}, rank * 8 + f) : f \in (0..7) \ {file}}

\* One diagonal of generate_bishop_moves: the while loop stepping (dr, df).
BishopDiagonal(rank, file, dr, df) ==
    UNION {Shl({0}, (rank + n * dr) * 8 + (file + n * df)) :
             n \in {m \in 1..7 : /\ rank + m * dr < 8 /\ rank + m * dr >= 0
                                 /\ file + m * df < 8 /\ file + m * df >= 0}}

generate_bishop_moves(square) ==
    LET rank == square \div 8
        file == square % 8
    IN  UNION {BishopDiagonal(rank, file, 1, 1), BishopDiagonal(rank, file, -1, -1),
               BishopDiagonal(rank, file, 1, -1), BishopDiagonal(rank, file, -1, 1)}

\* MoveGenerator::new: the tables as KnightLookup::new, KingLookup::new and
\* SlidingLookup::new build them.
MoveGenerator_new ==
    [knight_lookup |-> [i \in Square |-> generate_knight_moves(from_square(i))],
     king_lookup |-> [i \in Square |-> generate_king_moves(from_square(i))],
     sliding_lookup |-> [rooks |-> [i \in Square |-> generate_rook_moves(i)],
                         bishops |-> [i \in Square |-> generate_bishop_moves(i)]]]

(***************************************************************************)
(* position.rs: Position.  Of its GameState the side to move and the en    *)
(* passant square are kept.                                                *)
(***************************************************************************)
Piece_EMPTY == [color |-> White, piece_type |-> "None"]

Position_new(state) ==
    [board |-> [i \in Square |-> Piece_EMPTY],
     by_type_bitboards |-> [t \in PieceType |-> EMPTY],
     by_color_bitboards |-> [c \in Color |-> EMPTY],
     all_pieces_bitboard |-> EMPTY,
     state |-> state]

\* Variant of add_piece that writes the mailbox and the colour bitboard only.
add_piece_without_type(p, piece, square) ==
    LET mask == Shl({0}, square)
    IN  [p EXCEPT
           !.by_color_bitboards[piece.color] = @ \cup mask,
           !.all_pieces_bitboard = @ \cup mask,
           !.board[square] = piece]

add_piece(p, piece, square) ==
    LET mask == Shl({0}, square)
    IN  [p EXCEPT
           !.by_type_bitboards[piece.piece_type] = @ \cup mask,
           !.by_color_bitboards[piece.color] = @ \cup mask,
           !.all_pieces_bitboard = @ \cup mask,
           !.board[square] = piece]

remove_piece(p, square) ==
    LET mask == BitNot(Shl({0}, square))
        piece == p.board[square]
    IN  [p EXCEPT
           !.by_type_bitboards[piece.piece_type] = BitXor(@, mask),
           !.by_color_bitboards[piece.color] = BitXor(@, mask),
           !.all_pieces_bitboard = BitXor(@, mask),
           !.board[square] = Piece_EMPTY]

move_piece(p, from, to) ==
    LET piece == p.board[from]
        from_to == Shl({0}, from) \cup Shl({0}, to)
    IN  [p EXCEPT
           !.by_type_bitboards[piece.piece_type] = BitXor(@, from_to),
           !.by_color_bitboards[piece.color] = BitXor(@, from_to),
           !.all_pieces_bitboard = BitXor(@, from_to),
           !.board[from] = Piece_EMPTY,
           !.board[to] = piece]

get_side_to_move(p) == p.state.side_to_move

get_pieces_color_type(p, color, piece_type) ==
    p.by_color_bitboards[color] \cap p.by_type_bitboards[piece_type]

(***************************************************************************)
(* chess_move.rs and the generators: the pseudo-legal moves of a Position. *)
(* A MoveType is the string of its name.                                   *)
(***************************************************************************)
promotion_itr ==
    <<"KnightPromotion", "BishopPromotion", "RookPromotion", "QueenPromotion">>

promotion_capture_itr ==
    <<"KnightPromotionCapture", "BishopPromotionCapture",
      "RookPromotionCapture", "QueenPromotionCapture">>

ChessMove(from, to, kind) == [from |-> from, to |-> to, kind |-> kind]

is_promotion_capture(m) ==
    m.kind \in {promotion_capture_itr[n] : n \in 1..4}

is_promotion(m) == m.kind \in {promotion_itr[n] : n \in 1..4}

is_capture(m) ==
    m.kind = "Capture" \/ m.kind = "EnPassantCapture" \/ is_promotion_capture(m)

extract_moves(from, a, kind) ==
    LET targets == BitIter(a)
    IN  [n \in 1..Len(targets) |-> ChessMove(from, targets[n], kind)]

\* let captures = position.get_pieces_color(!color) & !their_king
Captures(p) ==
    LET color == get_side_to_move(p)
        their_king == get_pieces_color_type(p, Opposite(color), King)
    IN  p.by_color_bitboards[Opposite(color)] \cap BitNot(their_king)

generate_knight_attacks(g, p, knight) ==
    extract_moves(knight, g.knight_lookup[knight] \cap Captures(p), "Capture")

generate_knight_quiet_moves(g, p, knight) ==
    LET empty_squares == BitNot(p.all_pieces_bitboard)
    IN  extract_moves(knight, g.knight_lookup[knight] \cap empty_squares, "Quiet")

generate_pseudo_legal_knight_moves(g, p) ==
    LET knights == BitIter(get_pieces_color_type(p, get_side_to_move(p), Knight))
    IN  Concat([n \in 1..Len(knights) |->
                  generate_knight_attacks(g, p, knights[n])
                  \o generate_knight_quiet_moves(g, p, knights[n])], 1)

\* Indexes the table with trailing_zeros of the king bitboard: with no king
\* of the side to move the index is 64 and the call panics.
get_king_moves_bb(g, a) == g.king_lookup[trailing_zeros(a)]

\* king.to_square() is evaluated after get_king_moves_bb(king) has indexed
\* the table, so king holds a bit and the square is its lowest bit in every
\* build.
generate_king_attacks(g, p, king) ==
    LET king_captures == get_king_moves_bb(g, king) \cap Captures(p)
    IN  extract_moves(trailing_zeros(king), king_captures, "Quiet")

generate_king_quiet_moves(g, p, king) ==
    LET empty_squares == BitNot(p.all_pieces_bitboard)
        quiet_moves == get_king_moves_bb(g, king) \cap empty_squares
    IN  extract_moves(trailing_zeros(king), quiet_moves, "Quiet")

generate_pseudo_legal_king_moves(g, p) ==
    LET king == get_pieces_color_type(p, get_side_to_move(p), King)
    IN  generate_king_attacks(g, p, king) \o generate_king_quiet_moves(g, p, king)

get_queen_moves(g, square) ==
    g.sliding_lookup.rooks[square] \cup g.sliding_lookup.bishops[square]

generate_rook_attacks(g, p, rook) ==
    extract_moves(rook, g.sliding_lookup.rooks[rook] \cap Captures(p), "Capture")

generate_rook_quiet_moves(g, p, rook) ==
    LET empty_squares == BitNot(p.all_pieces_bitboard)
    IN  extract_moves(rook, g.sliding_lookup.rooks[rook] \cap empty_squares, "Quiet")

generate_pseudo_legal_rook_moves(g, p) ==
    LET rooks == BitIter(get_pieces_color_type(p, get_side_to_move(p), Rook))
    IN  Concat([n \in 1..Len(rooks) |->
                  generate_rook_attacks(g, p, rooks[n])
                  \o generate_rook_quiet_moves(g, p, rooks[n])], 1)

generate_bishop_attacks(g, p, bishop) ==
    extract_moves(bishop, g.sliding_lookup.bishops[bishop] \cap Captures(p),
                  "Capture")

generate_bishop_quiet_moves(g, p, bishop) ==
    LET empty_squares == BitNot(p.all_pieces_bitboard)
    IN  extract_moves(bishop, g.sliding_lookup.bishops[bishop] \cap empty_squares,
                      "Quiet")

generate_pseudo_legal_bishop_moves(g, p) ==
    LET bishops == BitIter(get_pieces_color_type(p, get_side_to_move(p), Bishop))
    IN  Concat([n \in 1..Len(bishops) |->
                  generate_bishop_attacks(g, p, bishops[n])
                  \o generate_bishop_quiet_moves(g, p, bishops[n])], 1)

generate_queen_attacks(g, p, queen) ==
    extract_moves(queen, get_queen_moves(g, queen) \cap Captures(p), "Capture")

generate_queen_quiet_moves(g, p, queen) ==
    LET empty_squares == BitNot(p.all_pieces_bitboard)
    IN  extract_moves(queen, get_queen_moves(g, queen) \cap empty_squares, "Quiet")

generate_pseudo_legal_queen_moves(g, p) ==
    LET queens == BitIter(get_pieces_color_type(p, get_side_to_move(p), Queen))
    IN  Concat([n \in 1..Len(queens) |->
                  generate_queen_attacks(g, p, queens[n])
                  \o generate_queen_quiet_moves(g, p, queens[n])], 1)

\* generators/pawn_moves.rs
PawnDirections_new(color) ==
    IF color = White
    THEN [up |-> UP, rank7 |-> RANK_7, rank3 |-> RANK_3]
    ELSE [up |-> DOWN, rank7 |-> reverse_colors(RANK_7),
          rank3 |-> reverse_colors(RANK_3)]

extract_pawn_moves(a, offset, kind) ==
    LET targets == BitIter(a)
    IN  [n \in 1..Len(targets) |->
            ChessMove(targets[n] - offset, targets[n], kind)]

\* kind: "Push" or "Capture" (PromotionType)
extract_pawn_promotions(a, offset, kind) ==
    LET itr == IF kind = "Push" THEN promotion_itr ELSE promotion_capture_itr
        targets == BitIter(a)
    IN  Concat([n \in 1..Len(targets) |->
                  [k \in 1..Len(itr) |->
                      ChessMove(targets[n] - offset, targets[n], itr[k])]], 1)

\* Variant of generate_pawn_pushes without the double pushes.
generate_pawn_pushes_without_double(p, dirs, all_pawns) ==
    LET pawns == all_pawns \cap BitNot(dirs.rank7)
        empty_squares == BitNot(p.all_pieces_bitboard)
        single_pushes == shift(pawns, dirs.up) \cap empty_squares
    IN  extract_pawn_moves(single_pushes, dirs.up, "Quiet")

generate_pawn_pushes(p, dirs, all_pawns) ==
    LET pawns == all_pawns \cap BitNot(dirs.rank7)
        empty_squares == BitNot(p.all_pieces_bitboard)
        single_pushes == shift(pawns, dirs.up) \cap empty_squares
        double_pawns == single_pushes \cap dirs.rank3
        double_pushes == shift(double_pawns, dirs.up) \cap empty_squares
    IN  extract_pawn_moves(single_pushes, dirs.up, "Quiet")
        \o extract_pawn_moves(double_pushes, dirs.up + dirs.up, "Quiet")

generate_pawn_captures(p, dirs, all_pawns) ==
    LET pawns == all_pawns \cap BitNot(dirs.rank7)
        captures == Captures(p)
        captures_left == shift(pawns, dirs.up + LEFT) \cap captures
        captures_right == shift(pawns, dirs.up + RIGHT) \cap captures
    IN  extract_pawn_moves(captures_left, dirs.up + LEFT, "Capture")
        \o extract_pawn_moves(captures_right, dirs.up + RIGHT, "Capture")

generate_pawn_en_passant(p, dirs, pawns) ==
    IF p.state.en_passant = NoSquare THEN <<>>
    ELSE LET en_passant_bb == from_square(p.state.en_passant)
             left_captures == shift(pawns, dirs.up + LEFT) \cap en_passant_bb
             right_captures == shift(pawns, dirs.up + RIGHT) \cap en_passant_bb
         IN  extract_pawn_moves(left_captures, dirs.up + LEFT, "EnPassantCapture")
             \o extract_pawn_moves(right_captures, dirs.up + RIGHT,
                                   "EnPassantCapture")

generate_pawn_promotions(p, dirs, all_pawns) ==
    LET pawns == all_pawns \cap dirs.rank7
        empty_squares == BitNot(p.all_pieces_bitboard)
        captures == Captures(p)
        pushes == shift(pawns, dirs.up) \cap empty_squares
        captures_left == shift(pawns, dirs.up + LEFT) \cap captures
        captures_right == shift(pawns, dirs.up + RIGHT) \cap captures
    IN  extract_pawn_promotions(pushes, dirs.up, "Push")
        \o extract_pawn_promotions(captures_left, dirs.up + LEFT, "Capture")
        \o extract_pawn_promotions(captures_right, dirs.up + RIGHT, "Capture")

generate_pseudo_legal_pawn_moves(p) ==
    LET dirs == PawnDirections_new(get_side_to_move(p))
        pawns == get_pieces_color_type(p, get_side_to_move(p), Pawn)
    IN  generate_pawn_pushes(p, dirs, pawns)
        \o generate_pawn_captures(p, dirs, pawns)
        \o generate_pawn_en_passant(p, dirs, pawns)
        \o generate_pawn_promotions(p, dirs, pawns)

\* generators/move_generator.rs
generate_pseudo_legal_moves(g, p, piece_type) ==
    CASE piece_type = Pawn   -> generate_pseudo_legal_pawn_moves(p)
      [] piece_type = Knight -> generate_pseudo_legal_knight_moves(g, p)
      [] piece_type = King   -> generate_pseudo_legal_king_moves(g, p)
      [] piece_type = Queen  -> generate_pseudo_legal_queen_moves(g, p)
      [] piece_type = Rook   -> generate_pseudo_legal_rook_moves(g, p)
      [] piece_type = Bishop -> generate_pseudo_legal_bishop_moves(g, p)
      [] OTHER -> <<>>

generate_all_pseudo_legal_moves(g, p) ==
    generate_pseudo_legal_moves(g, p, Pawn)
    \o generate_pseudo_legal_moves(g, p, Knight)
    \o generate_pseudo_legal_moves(g, p, King)
    \o generate_pseudo_legal_moves(g, p, Queen)
    \o generate_pseudo_legal_moves(g, p, Rook)

(***************************************************************************)
(* The games played: a game is set up from a FEN and continued by          *)
(* make_move calls with moves taken from generate_moves.                   *)
(***************************************************************************)
\* The largest number of make_move calls in a game
MaxPly == 5

Sq(file, rank) == coord_to_index(rank - 1, CharCode(file) - 97)

Mv(from_file, from_rank, to_file, to_rank) ==
    <<Sq(from_file, from_rank), Sq(to_file, to_rank)>>

\* The set-up positions, and for each the moves the driver chooses among
\* (whenever generate_moves offers them).

Fen_opening ==
    Fen(<<"r", "n", "b", "q", "k", "b", "n", "r", "/", "p", "p", "p", "p", "p", "p", "p", "p", "/", "8", "/", "8", "/", "8", "/", "8", "/", "P", "P", "P", "P", "P", "P", "P", "P", "/", "R", "N", "B", "Q", "K", "B", "N", "R">>,
        "w", <<"K", "Q", "k", "q">>, <<"-">>)

Book_opening ==
    {Mv("e", 2, "e", 4), Mv("g", 1, "f", 3), Mv("e", 4, "e", 5), Mv("e", 5, "f", 6), Mv("e", 5, "d", 6), Mv("e", 1, "e", 2), Mv("f", 1, "b", 5), Mv("b", 5, "e", 8), Mv("d", 7, "d", 5), Mv("f", 7, "f", 5), Mv("c", 7, "c", 6), Mv("a", 7, "a", 6), Mv("e", 8, "d", 7)}

Fen_pin ==
    Fen(<<"4", "r", "3", "/", "8", "/", "8", "/", "8", "/", "8", "/", "8", "/", "4", "R", "3", "/", "4", "K", "3">>,
        "w", <<"-">>, <<"-">>)

Book_pin ==
    {Mv("e", 2, "e", 5), Mv("e", 2, "e", 8), Mv("e", 1, "d", 1), Mv("d", 1, "e", 1), Mv("e", 8, "e", 2), Mv("e", 8, "a", 8), Mv("e", 8, "e", 7)}

Fen_castle ==
    Fen(<<"r", "3", "k", "2", "r", "/", "8", "/", "8", "/", "8", "/", "8", "/", "8", "/", "8", "/", "R", "3", "K", "2", "R">>,
        "w", <<"K", "Q", "k", "q">>, <<"-">>)

Book_castle ==
    {Mv("e", 1, "e", 2), Mv("e", 2, "e", 1), Mv("h", 1, "g", 1), Mv("h", 1, "h", 8), Mv("a", 1, "a", 8), Mv("e", 8, "e", 7), Mv("e", 8, "f", 8), Mv("h", 8, "h", 1), Mv("a", 8, "a", 1), Mv("h", 8, "g", 8)}

Fen_rook_capture ==
    Fen(<<"r", "3", "k", "2", "r", "/", "7", "r", "/", "8", "/", "8", "/", "8", "/", "8", "/", "7", "P", "/", "R", "3", "K", "2", "R">>,
        "b", <<"K", "Q", "k", "q">>, <<"-">>)

Book_rook_capture ==
    {Mv("h", 7, "h", 2), Mv("h", 2, "h", 1), Mv("a", 1, "b", 1), Mv("h", 1, "h", 2), Mv("e", 8, "e", 7), Mv("e", 1, "e", 2)}

Fen_check ==
    Fen(<<"4", "r", "3", "/", "8", "/", "8", "/", "8", "/", "8", "/", "8", "/", "8", "/", "4", "K", "2", "R">>,
        "w", <<"K">>, <<"-">>)

Book_check ==
    {Mv("e", 1, "d", 1), Mv("d", 1, "e", 1), Mv("e", 1, "f", 1), Mv("e", 8, "a", 8), Mv("e", 8, "e", 7), Mv("h", 1, "g", 1), Mv("h", 1, "h", 8)}

Fen_en_passant ==
    Fen(<<"r", "n", "b", "q", "k", "b", "n", "r", "/", "p", "p", "p", "1", "p", "p", "p", "p", "/", "8", "/", "3", "p", "P", "3", "/", "8", "/", "8", "/", "P", "P", "P", "P", "1", "P", "P", "P", "/", "R", "N", "B", "Q", "K", "B", "N", "R">>,
        "w", <<"K", "Q", "k", "q">>, <<"d", "6">>)

Book_en_passant ==
    {Mv("e", 5, "d", 6), Mv("e", 5, "e", 6), Mv("e", 1, "e", 2), Mv("c", 7, "d", 6), Mv("f", 7, "e", 6), Mv("d", 5, "d", 4), Mv("c", 2, "c", 4), Mv("d", 4, "c", 3), Mv("e", 8, "d", 7)}

Fen_king_walk ==
    Fen(<<"8", "/", "8", "/", "8", "/", "8", "/", "8", "/", "8", "/", "r", "7", "/", "4", "K", "3">>,
        "w", <<"-">>, <<"-">>)

Book_king_walk ==
    {Mv("e", 1, "d", 1), Mv("e", 1, "f", 1), Mv("d", 1, "c", 1), Mv("f", 1, "g", 1), Mv("a", 2, "a", 1), Mv("a", 2, "e", 2), Mv("a", 2, "h", 2)}

Fen_promotion ==
    Fen(<<"8", "/", "P", "7", "/", "8", "/", "8", "/", "8", "/", "8", "/", "8", "/", "K", "7">>,
        "w", <<"-">>, <<"-">>)

Book_promotion ==
    {Mv("a", 7, "a", 8), Mv("a", 1, "b", 1), Mv("a", 1, "a", 2), Mv("b", 1, "a", 1), Mv("a", 8, "a", 1), Mv("a", 8, "h", 8)}

Fen_promotion_capture ==
    Fen(<<"r", "7", "/", "1", "P", "6", "/", "8", "/", "8", "/", "8", "/", "8", "/", "8", "/", "8">>,
        "w", <<"-">>, <<"-">>)

Book_promotion_capture ==
    {Mv("b", 7, "a", 8), Mv("b", 7, "b", 8), Mv("a", 8, "a", 1), Mv("a", 8, "b", 8), Mv("a", 8, "a", 7), Mv("a", 7, "b", 7)}

StartPositions ==
    {[name |-> "opening", fen |-> Fen_opening, book |-> Book_opening],
     [name |-> "pin", fen |-> Fen_pin, book |-> Book_pin],
     [name |-> "castle", fen |-> Fen_castle, book |-> Book_castle],
     [name |-> "rook_capture", fen |-> Fen_rook_capture, book |-> Book_rook_capture],
     [name |-> "check", fen |-> Fen_check, book |-> Book_check],
     [name |-> "en_passant", fen |-> Fen_en_passant, book |-> Book_en_passant],
     [name |-> "king_walk", fen |-> Fen_king_walk, book |-> Book_king_walk],
     [name |-> "promotion", fen |-> Fen_promotion, book |-> Book_promotion],
     [name |-> "promotion_capture", fen |-> Fen_promotion_capture,
      book |-> Book_promotion_capture]}

Book(name) == (CHOOSE s \in StartPositions : s.name = name).book

NoMove == Move_new(NoSquare, NoSquare)

Board ==
    [squares |-> squares, turn |-> turn, castling_rights |-> castling_rights,
     en_passant_target |-> en_passant_target]

SetUp(s) ==
    LET b == from_fen(s.fen, TRUE).board
    IN  /\ squares = b.squares
        /\ turn = b.turn
        /\ castling_rights = b.castling_rights
        /\ en_passant_target = b.en_passant_target
        /\ move_list = generate_moves(b)
        /\ start = s.name
        /\ ply = 0
        /\ last_move = NoMove
        /\ prev = b

(***************************************************************************)
(* The bitboard variables while the games are played, and the mailbox      *)
(* board while the bitboard code is called.  `called` is the last call.    *)
(***************************************************************************)
\* GameState::new, of which the side to move and the en passant square are kept.
GameState_new(side_to_move, en_passant) ==
    [side_to_move |-> side_to_move, en_passant |-> en_passant]

NoPosition == Position_new(GameState_new(White, NoSquare))

\* The lookups before their loops have run: [EMPTY; 64] each.
NoMoveGenerator ==
    LET table == [i \in Square |-> EMPTY]
    IN  [knight_lookup |-> table, king_lookup |-> table,
         sliding_lookup |-> [rooks |-> table, bishops |-> table]]

\* The chess games leave the bitboard variables alone, and the callers of
\* the bitboard code leave the mailbox board alone.
IdleBitboards ==
    /\ bb = EMPTY
    /\ move_generator = NoMoveGenerator
    /\ position = NoPosition
    /\ called = [op |-> "none"]

IdleBoard == \E s \in StartPositions : s.name = "opening" /\ SetUp(s)

boardVars == <<squares, turn, castling_rights, en_passant_target, move_list,
               start, ply, last_move, prev>>

Init == IdleBitboards /\ \E s \in StartPositions : SetUp(s)

InitOpening ==
    IdleBitboards /\ \E s \in StartPositions : s.name = "opening" /\ SetUp(s)

\* The driver takes a move of generate_moves, calls make_move with it and
\* generates the moves of the new position.
MakeMove ==
    /\ ply < MaxPly
    /\ \E i \in 1..Len(move_list) :
          /\ <<move_list[i].from, move_list[i].to>> \in Book(start)
          /\ LET b == make_move(Board, move_list[i])
             IN  /\ squares' = b.squares
                 /\ turn' = b.turn
                 /\ castling_rights' = b.castling_rights
                 /\ en_passant_target' = b.en_passant_target
                 /\ move_list' = generate_moves(b)
          /\ last_move' = move_list[i]
          /\ prev' = Board
          /\ ply' = ply + 1
          /\ UNCHANGED <<start, bb, move_generator, position, called>>

Next == MakeMove

Spec == Init /\ [][Next]_vars

SpecOpening == InitOpening /\ [][Next]_vars

(***************************************************************************)
(* The callers of the bitboard code                                        *)
(***************************************************************************)
\* ---- shift: a bitboard is shifted one step at a time (as the pawn and king
\* generators do), starting from a single square, a file, a rank, a diagonal
\* or the full board.
Directions == {king_itr[n] : n \in 1..Len(king_itr)}

ShiftInputs ==
    {from_square(s) : s \in Square}
    \cup {FILE_A, FILE_B, FILE_G, FILE_H, RANK_1, RANK_3, RANK_7, RANK_8}
    \cup {{i \in Square : (i \div 8) = (i % 8)},
          {i \in Square : (i \div 8) + (i % 8) = 7}, BitNot(EMPTY)}

InitBitBoard ==
    /\ bb \in ShiftInputs
    /\ move_generator = NoMoveGenerator
    /\ position = NoPosition
    /\ called = [op |-> "none"]
    /\ IdleBoard

Shift ==
    /\ \E direction \in Directions :
          /\ bb' = shift(bb, direction)
          /\ called' = [op |-> "shift", bb |-> bb, direction |-> direction]
    /\ UNCHANGED <<move_generator, position, boardVars>>

\* to_square is called on the bitboard, in a build with the checks of the
\* transmute or without them.
ToSquare ==
    /\ \E ub_checks \in Builds :
          called' = [op |-> "to_square", bb |-> bb, ub_checks |-> ub_checks,
                     square |-> to_square(bb, ub_checks)]
    /\ UNCHANGED <<bb, move_generator, position, boardVars>>

NextBitBoard == Shift \/ ToSquare

SpecBitBoard == InitBitBoard /\ [][NextBitBoard]_vars

\* ---- MoveGenerator::new: the three lookups are built one after the other,
\* each by a loop over the 64 squares that fills one entry per iteration.
InitMoveGenerator ==
    /\ bb = EMPTY
    /\ move_generator = NoMoveGenerator
    /\ position = NoPosition
    /\ called = [op |-> "MoveGenerator::new", i |-> 63]
    /\ IdleBoard

\* The iteration a loop runs next: 0 after the loop before it has ended.
LoopIndex(op, before) ==
    IF called.op = op /\ called.i < 63 THEN called.i + 1
    ELSE IF called.op = before /\ called.i = 63 THEN 0
    ELSE 64

KnightLookupLoop ==
    LET i == LoopIndex("KnightLookup::new", "MoveGenerator::new")
    IN  /\ i < 64
        /\ move_generator' =
             [move_generator EXCEPT
                !.knight_lookup[i] = generate_knight_moves(from_square(i))]
        /\ called' = [op |-> "KnightLookup::new", i |-> i]
        /\ UNCHANGED <<bb, position, boardVars>>

KingLookupLoop ==
    LET i == LoopIndex("KingLookup::new", "KnightLookup::new")
    IN  /\ i < 64
        /\ move_generator' =
             [move_generator EXCEPT
                !.king_lookup[i] = generate_king_moves(from_square(i))]
        /\ called' = [op |-> "KingLookup::new", i |-> i]
        /\ UNCHANGED <<bb, position, boardVars>>

SlidingLookupLoop ==
    LET i == LoopIndex("SlidingLookup::new", "KingLookup::new")
    IN  /\ i < 64
        /\ move_generator' =
             [move_generator EXCEPT
                !.sliding_lookup.rooks[i] = generate_rook_moves(i),
                !.sliding_lookup.bishops[i] = generate_bishop_moves(i)]
        /\ called' = [op |-> "SlidingLookup::new", i |-> i]
        /\ UNCHANGED <<bb, position, boardVars>>

NextMoveGenerator == KnightLookupLoop \/ KingLookupLoop \/ SlidingLookupLoop

SpecMoveGenerator == InitMoveGenerator /\ [][NextMoveGenerator]_vars

\* ---- Position: a Position is created empty and then changed by add_piece,
\* move_piece and remove_piece calls.
\* The largest number of calls on one Position
MaxCalls == 3

\* The pieces a caller adds and the squares it adds them to.
Placements ==
    {<<Piece(White, King), Sq("e", 1)>>, <<Piece(Black, King), Sq("e", 8)>>,
     <<Piece(White, Rook), Sq("d", 4)>>, <<Piece(White, Pawn), Sq("d", 2)>>,
     <<Piece(Black, Pawn), Sq("d", 7)>>, <<Piece(White, Bishop), Sq("c", 1)>>,
     <<Piece(Black, Knight), Sq("e", 2)>>, <<Piece(White, Pawn), Sq("a", 7)>>,
     <<Piece(Black, Bishop), Sq("b", 8)>>}

\* The squares a caller moves pieces between and removes pieces from.
CallSquares == {pl[2] : pl \in Placements} \cup {Sq("d", 1), Sq("d", 8)}

InitPosition ==
    /\ bb = EMPTY
    /\ move_generator = MoveGenerator_new
    /\ \E side_to_move \in Color :
          position = Position_new(GameState_new(side_to_move, NoSquare))
    /\ called = [op |-> "new", n |-> 0]
    /\ IdleBoard

AddPiece ==
    /\ called.n < MaxCalls
    /\ \E pl \in Placements :
          /\ position.board[pl[2]] = Piece_EMPTY
          /\ position' = add_piece(position, pl[1], pl[2])
          /\ called' = [op |-> "add_piece", n |-> called.n + 1,
                        piece |-> pl[1], square |-> pl[2]]
    /\ UNCHANGED <<bb, move_generator, boardVars>>

MovePiece ==
    /\ called.n < MaxCalls
    /\ \E from \in CallSquares, to \in CallSquares :
          /\ position.board[from] # Piece_EMPTY
          /\ position.board[to] = Piece_EMPTY
          /\ position' = move_piece(position, from, to)
          /\ called' = [op |-> "move_piece", n |-> called.n + 1,
                        from |-> from, to |-> to]
    /\ UNCHANGED <<bb, move_generator, boardVars>>

RemovePiece ==
    /\ called.n < MaxCalls
    /\ \E square \in CallSquares :
          /\ position.board[square] # Piece_EMPTY
          /\ position' = remove_piece(position, square)
          /\ called' = [op |-> "remove_piece", n |-> called.n + 1,
                        square |-> square]
    /\ UNCHANGED <<bb, move_generator, boardVars>>

\* Positions built by add_piece and move_piece only.
NextPosition == AddPiece \/ MovePiece

SpecPosition == InitPosition /\ [][NextPosition]_vars

\* Positions on which remove_piece is called as well.
NextPositionRemove == AddPiece \/ MovePiece \/ RemovePiece

SpecPositionRemove == InitPosition /\ [][NextPositionRemove]_vars

(***************************************************************************)
(* fen_parser.rs: FenParser::parse_piece_positions, and the callers of the  *)
(* two FEN parsers.                                                        *)
(***************************************************************************)
\* str::split('/'): the pieces between the separators, empty ones included.
RECURSIVE split(_, _, _)
split(pieces_fen, i, rank) ==
    IF i > Len(pieces_fen) THEN <<rank>>
    ELSE IF pieces_fen[i] = "/" THEN <<rank>> \o split(pieces_fen, i + 1, << >>)
    ELSE split(pieces_fen, i + 1, Append(rank, pieces_fen[i]))

\* Piece::from_char: an unknown letter gives a piece of type None.
Piece_from_char(c) ==
    [color |-> IF IsUppercase(c) THEN White ELSE Black,
     piece_type |-> PieceTypeOfChar(c)]

\* enum Square { Empty, Occupied(Piece) }
Square_Empty == [tag |-> "Empty"]

Square_Occupied(piece) == [tag |-> "Occupied", piece |-> piece]

\* Squares::from_file_rank(file_index, rank_index) transmutes the index
\* rank * 8 + file (defs.rs:156-162); for an index that is no square the
\* behaviour is undefined, and the call of parse_piece_positions ends as the
\* build has it.  undefined names that end:
\*   "Abort": the process aborts at the transmute (the check a build with
\*            debug assertions makes);
\*   "Panic": positions[square] panics, index out of bounds;
\*   "Died":  the process dies of a memory fault;
\*   "Err":   the write falls outside positions and the length check of the
\*            rank answers Err(InvalidFileLength);
\*   "Uninitialised": Ok is returned with an array that does not hold 64
\*            values of Square.
Undefined == {"Abort", "Panic", "Died", "Err", "Uninitialised"}

UndefinedIn(ub_checks) ==
    IF ub_checks THEN {"Abort"} ELSE {"Panic", "Died", "Err", "Uninitialised"}

\* What parse_piece_positions returns once an index off the board was
\* transmuted.
UndefinedOutcome(undefined) ==
    CASE undefined = "Err" -> [tag |-> "Err", error |-> "InvalidFileLength"]
      [] undefined = "Uninitialised" ->
             [tag |-> "Ok", positions |-> [i \in Square |-> [tag |-> "Uninitialised"]]]
      [] OTHER -> [tag |-> undefined]

\* The loop over the characters of one rank (fen_parser.rs:63-72), on the
\* loop's state st (tag, positions, file_index); the tag is Undefined once
\* an index off the board was transmuted.
RECURSIVE parse_rank(_, _, _, _)
parse_rank(rank, i, st, rank_index) ==
    IF i > Len(rank) THEN st
    ELSE LET c == rank[i]
         IN  IF DigitValue(c) >= 0
             THEN parse_rank(rank, i + 1,
                             [st EXCEPT !.file_index = @ + DigitValue(c)],
                             rank_index)
             ELSE LET square == rank_index * 8 + st.file_index
                  IN  IF square \notin Square THEN [st EXCEPT !.tag = "Undefined"]
                      ELSE parse_rank(rank, i + 1,
                                      [st EXCEPT !.positions[square] =
                                                     Square_Occupied(Piece_from_char(c)),
                                                 !.file_index = @ + 1],
                                      rank_index)

\* The loop over the ranks (fen_parser.rs:59-77).
RECURSIVE parse_ranks(_, _, _, _)
parse_ranks(ranks, n, positions, undefined) ==
    IF n > Len(ranks) THEN [tag |-> "Ok", positions |-> positions]
    ELSE LET r == parse_rank(ranks[n], 1,
                             [tag |-> "Ok", positions |-> positions,
                              file_index |-> 0],
                             7 - (n - 1))
         IN  IF r.tag = "Undefined" THEN UndefinedOutcome(undefined)
             ELSE IF r.file_index # 8
                  THEN [tag |-> "Err", error |-> "InvalidFileLength"]
             ELSE parse_ranks(ranks, n + 1, r.positions, undefined)

parse_piece_positions(pieces_fen, undefined) ==
    LET ranks == split(pieces_fen, 1, << >>)
    IN  IF Len(ranks) # 8 THEN [tag |-> "Err", error |-> "InvalidRankLength"]
        ELSE parse_ranks(ranks, 1, [i \in Square |-> Square_Empty], undefined)

(***************************************************************************)
(* defs.rs: Squares::to_algebraic / Squares::from_algebraic, and            *)
(* Board::index_to_coord_algebraic of board.rs.  A string is the sequence   *)
(* of the codes of its characters ('1' = 49, 'A' = 65, 'a' = 97); the       *)
(* arithmetic is u8 arithmetic.                                            *)
(***************************************************************************)
to_algebraic(index) ==
    LET rank == (index \div 8) + 1
        file == index % 8
    IN  <<(file + 65) % 256, (rank + 49) % 256>>

\* char::to_digit(10): the value of a decimal digit, -1 (None) otherwise.
to_digit(c) == IF c \in 48..57 THEN c - 48 ELSE -1

\* `as u8 - b'a'` and `as u8 - 1` panic below 0 with the overflow checks and
\* wrap without them; unwrap of a non-digit panics; Squares::from_index
\* transmutes, which is undefined for an index that is not a square.
from_algebraic(algebraic, overflow_checks) ==
    IF Len(algebraic) < 2 \/ to_digit(algebraic[2]) < 0 THEN [tag |-> "Panic"]
    ELSE IF overflow_checks /\ (algebraic[1] < 97 \/ to_digit(algebraic[2]) < 1)
         THEN [tag |-> "Panic"]
    ELSE LET file == (algebraic[1] - 97) % 256
             rank == (to_digit(algebraic[2]) - 1) % 256
             index == rank * 8 + file
         IN  IF index \in Square THEN [tag |-> "Ok", index |-> index]
             ELSE [tag |-> "Undefined"]

index_to_coord_algebraic(index) ==
    <<(97 + (index % 8)) % 256, (49 + (index \div 8)) % 256>>

\* ---- The conversions are called with every square, and from_algebraic
\* with every lowercase square name.
InitSquares ==
    /\ called = [op |-> "none"]
    /\ bb = EMPTY
    /\ move_generator = NoMoveGenerator
    /\ position = NoPosition
    /\ IdleBoard

ToAlgebraic ==
    /\ \E index \in Square, overflow_checks \in Builds :
          called' = [op |-> "to_algebraic", index |-> index,
                     overflow_checks |-> overflow_checks,
                     algebraic |-> to_algebraic(index),
                     coord |-> index_to_coord_algebraic(index),
                     back |-> from_algebraic(to_algebraic(index), overflow_checks)]
    /\ UNCHANGED <<bb, move_generator, position, boardVars>>

FromAlgebraic ==
    /\ \E file \in 97..104, rank \in 49..56, overflow_checks \in Builds :
          called' = [op |-> "from_algebraic", algebraic |-> <<file, rank>>,
                     overflow_checks |-> overflow_checks,
                     square |-> from_algebraic(<<file, rank>>, overflow_checks)]
    /\ UNCHANGED <<bb, move_generator, position, boardVars>>

NextSquares == ToAlgebraic \/ FromAlgebraic

SpecSquares == InitSquares /\ [][NextSquares]_vars

(***************************************************************************)
(* fen_parser.rs: FenParser::parse_fen, on the whitespace-separated fields  *)
(* of a FEN.  Board::new, which parse_fen calls last, is not in the         *)
(* sources: Ok holds the four arguments it is called with.                 *)
(***************************************************************************)
parse_turn(turn_fen) ==
    IF Len(turn_fen) # 1 THEN [tag |-> "Err", error |-> "InvalidTurn"]
    ELSE IF turn_fen = <<"w">> THEN [tag |-> "Ok", color |-> White]
    ELSE IF turn_fen = <<"b">> THEN [tag |-> "Ok", color |-> Black]
    ELSE [tag |-> "Err", error |-> "InvalidTurn"]

\* The u8 of the rights, as the set of its bits: bit 0 WHITE_KING_SIDE, bit 1
\* WHITE_QUEEN_SIDE, bit 2 BLACK_KING_SIDE, bit 3 BLACK_QUEEN_SIDE.  Any
\* character other than K, Q, k, q ends the loop with NO_CASTLING.
RECURSIVE parse_castling_rights(_, _, _)
parse_castling_rights(castling_fen, i, rights) ==
    IF i > Len(castling_fen) THEN rights
    ELSE LET c == castling_fen[i]
         IN  IF c \notin {"K", "Q", "k", "q"} THEN {}
             ELSE parse_castling_rights(castling_fen, i + 1,
                      rights \cup {CASE c = "K" -> 0 [] c = "Q" -> 1
                                              [] c = "k" -> 2 [] c = "q" -> 3})

\* Some(Squares::from_algebraic(en_passant_fen).to_index()), or None for "-".
parse_en_passant(en_passant_fen, overflow_checks) ==
    IF en_passant_fen = <<"-">> THEN [tag |-> "Ok", index |-> NoSquare]
    ELSE from_algebraic([i \in 1..Len(en_passant_fen) |-> CharCode(en_passant_fen[i])],
                        overflow_checks)

\* str::parse of an unsigned integer of at most max: an optional + and then
\* one digit or more; -1 for the Err (no digit, another character, or a
\* value above max).
RECURSIVE parse_digits(_, _, _, _)
parse_digits(text, i, value, max) ==
    IF i > Len(text) THEN value
    ELSE IF DigitValue(text[i]) < 0 THEN -1
    ELSE LET next == value * 10 + DigitValue(text[i])
         IN  IF next > max THEN -1 ELSE parse_digits(text, i + 1, next, max)

parse_unsigned(text, max) ==
    LET digits == IF text # << >> /\ text[1] = "+" THEN Tail(text) ELSE text
    IN  IF digits = << >> THEN -1 ELSE parse_digits(digits, 1, 0, max)

parse_fen(parts, overflow_checks, undefined) ==
    IF Len(parts) # 6 THEN [tag |-> "Err", error |-> "InvalidFormat"]
    ELSE LET pieces == parse_piece_positions(parts[1], undefined)
             initialised == pieces.positions[0].tag # "Uninitialised"
             ocupancy(color) ==
                 IF initialised
                 THEN {i \in Square : /\ pieces.positions[i].tag = "Occupied"
                                      /\ pieces.positions[i].piece.color = color}
                 ELSE "Uninitialised"
             side_to_move == parse_turn(parts[2])
             en_passant == parse_en_passant(parts[4], overflow_checks)
             halfmove_clock == parse_unsigned(parts[5], 255)
             fullmove_counter == parse_unsigned(parts[6], 65535)
         IN  IF pieces.tag # "Ok" THEN pieces
             ELSE IF side_to_move.tag # "Ok" THEN side_to_move
             ELSE IF en_passant.tag # "Ok" THEN en_passant
             ELSE IF halfmove_clock < 0 \/ fullmove_counter < 0
                  THEN [tag |-> "Err", error |-> "InvalidFormat"]
             ELSE [tag |-> "Ok",
                   pieces |-> pieces.positions,
                   state |-> [side_to_move |-> side_to_move.color,
                              castling |-> parse_castling_rights(parts[3], 1, {}),
                              halfmove_clock |-> halfmove_clock,
                              en_passant |-> en_passant.index,
                              fullmove_number |-> fullmove_counter],
                   black_ocupancy_bitboard |-> ocupancy(Black),
                   white_ocupancy_bitboard |-> ocupancy(White)]

\* ---- The placement field handed to the parsers is written rank by rank;
\* at most MaxOddRanks of its ranks are other than "8".
MaxRanks == 9

MaxOddRanks == 1

RankTexts ==
    {<<"8">>, <<"7">>, <<"9">>, <<"4", "K", "3">>, <<"x", "7">>, <<"3", "X", "4">>,
     <<"p", "p", "p", "p", "p", "p", "p", "p">>,
     <<"p", "p", "p", "p", "p", "p", "p", "p", "p">>}

InitFen ==
    /\ called = [op |-> "placement", pieces |-> << >>, ranks |-> 0, odd |-> 0]
    /\ bb = EMPTY
    /\ move_generator = NoMoveGenerator
    /\ position = NoPosition
    /\ IdleBoard

AppendRank ==
    /\ called.op = "placement"
    /\ called.ranks < MaxRanks
    /\ \E rank \in RankTexts :
          /\ rank # <<"8">> => called.odd < MaxOddRanks
          /\ called' = [called EXCEPT
                 !.pieces = IF called.ranks = 0 THEN rank ELSE @ \o <<"/">> \o rank,
                 !.ranks = @ + 1,
                 !.odd = IF rank = <<"8">> THEN @ ELSE @ + 1]
    /\ UNCHANGED <<bb, move_generator, position, boardVars>>

\* The en-passant and halfmove-clock fields handed to the parsers.
EnPassantFields ==
    {<<"-">>, <<"e", "3">>, <<"e", "0">>, <<"i", "3">>, <<"E", "3">>, <<"e">>}

HalfmoveFields == {<<"0">>, <<"2", "5", "6">>}

\* The FEN of the placement, side w, no castling, an en-passant field and
\* the clocks is handed to Board::from_fen and to FenParser::parse_fen, and
\* its placement to FenParser::parse_piece_positions, in a build with the
\* checks or without them.
ParseFen ==
    /\ called.op = "placement"
    /\ called.ranks > 0
    /\ \E overflow_checks \in Builds, en_passant \in EnPassantFields,
          halfmove \in HalfmoveFields :
          \E undefined \in UndefinedIn(overflow_checks) :
              LET parts == <<called.pieces, <<"w">>, <<"-">>, en_passant,
                             halfmove, <<"1">> >>
              IN  called' = [op |-> "parse", pieces |-> called.pieces,
                             en_passant |-> en_passant,
                             halfmove |-> halfmove,
                             overflow_checks |-> overflow_checks,
                             undefined |-> undefined,
                             from_fen |-> from_fen(parts, overflow_checks),
                             parse_fen |-> parse_fen(parts, overflow_checks,
                                                     undefined),
                             parse_piece_positions |->
                                 parse_piece_positions(called.pieces, undefined)]
    /\ UNCHANGED <<bb, move_generator, position, boardVars>>

NextFen == AppendRank \/ ParseFen

SpecFen == InitFen /\ [][NextFen]_vars

(***************************************************************************)
(* evaluation.rs and search.rs: evaluate, negamax, search_best_move.        *)
(***************************************************************************)
PAWN_VALUE == 100
KNIGHT_VALUE == 320
BISHOP_VALUE == 330
ROOK_VALUE == 500
QUEEN_VALUE == 900

INFINITY == 50000
MATE_SCORE == 49000

piece_value(piece_type) ==
    CASE piece_type = Pawn -> PAWN_VALUE
      [] piece_type = Knight -> KNIGHT_VALUE
      [] piece_type = Bishop -> BISHOP_VALUE
      [] piece_type = Rook -> ROOK_VALUE
      [] piece_type = Queen -> QUEEN_VALUE
      [] OTHER -> 0

evaluate(b) ==
    SumSeq([n \in 1..64 |->
               LET piece == b.squares[n - 1]
               IN  IF piece = None THEN 0
                   ELSE IF piece.color = White THEN piece_value(piece.piece_type)
                   ELSE 0 - piece_value(piece.piece_type)], 1)

\* The largest element of a non-empty set of scores (i32::max folded over it).
MaxOf(scores) == CHOOSE s \in scores : \A t \in scores : t <= s

RECURSIVE negamax(_, _)
negamax(b, depth) ==
    IF depth = 0
    THEN LET score == evaluate(b)
         IN  IF b.turn = White THEN score ELSE 0 - score
    ELSE LET moves == generate_moves(b)
         IN  IF moves = << >>
             THEN IF is_king_attacked(b, b.turn) THEN depth - MATE_SCORE ELSE 0
             ELSE MaxOf({0 - INFINITY} \cup
                        {0 - negamax(make_move(b, moves[i]), depth - 1) :
                             i \in 1..Len(moves)})

\* Display for Move: the two square names and the promotion letter.
Move_to_string(mv) ==
    index_to_coord_algebraic(mv.from) \o index_to_coord_algebraic(mv.to)
        \o (CASE mv.promotion = Queen -> <<113>>
              [] mv.promotion = Rook -> <<114>>
              [] mv.promotion = Bishop -> <<98>>
              [] mv.promotion = Knight -> <<110>>
              [] OTHER -> << >>)

\* The loop of search_best_move: best_score starts at i32::MIN and a move
\* replaces the best one only with a strictly greater score, so the first
\* move of the greatest score is returned; None (here << >>) without moves.
search_best_move(b, depth) ==
    LET moves == generate_moves(b)
        score == [i \in 1..Len(moves) |-> negamax(make_move(b, moves[i]), depth - 1)]
    IN  IF moves = << >> THEN << >>
        ELSE LET best_score == MaxOf({score[i] : i \in 1..Len(moves)})
                 best == CHOOSE i \in 1..Len(moves) :
                             /\ score[i] = best_score
                             /\ \A j \in 1..(i - 1) : score[j] < best_score
             IN  Move_to_string(moves[best])

\* ---- The searches: a position of the search tests or of the board tests is
\* set up, at most MaxSearchPly legal moves are made on it, and the position
\* is searched to a depth of 1..MaxDepth.
MaxSearchPly == 1

MaxDepth == 2

Fen_protected_pawn ==
    Fen(<<"3", "r", "4", "/", "8", "/", "8", "/", "8", "/", "3", "p", "4", "/", "8", "/", "8", "/", "3", "Q", "4">>,
        "w", <<"-">>, <<"-">>)

Fen_mate_in_one ==
    Fen(<<"6", "k", "1", "/", "5", "p", "p", "p", "/", "8", "/", "8", "/", "8", "/", "8", "/", "7", "r", "/", "R", "K", "6">>,
        "w", <<"-">>, <<"-">>)

Fen_checkmate ==
    Fen(<<"6", "k", "1", "/", "8", "/", "8", "/", "8", "/", "8", "/", "8", "/", "P", "P", "P", "5", "/", "K", "2", "r", "4">>,
        "w", <<"-">>, <<"-">>)

Fen_stalemate ==
    Fen(<<"8", "/", "8", "/", "8", "/", "8", "/", "8", "/", "8", "/", "2", "q", "5", "/", "K", "7">>,
        "w", <<"-">>, <<"-">>)

SearchPositions ==
    {[name |-> "protected_pawn", fen |-> Fen_protected_pawn],
     [name |-> "mate_in_one", fen |-> Fen_mate_in_one],
     [name |-> "checkmate", fen |-> Fen_checkmate],
     [name |-> "stalemate", fen |-> Fen_stalemate],
     [name |-> "pin", fen |-> Fen_pin],
     [name |-> "promotion", fen |-> Fen_promotion]}

InitSearch ==
    /\ \E s \in SearchPositions : SetUp(s)
    /\ bb = EMPTY
    /\ move_generator = NoMoveGenerator
    /\ position = NoPosition
    /\ called = [op |-> "from_fen"]

PlayMove ==
    /\ ply < MaxSearchPly
    /\ \E i \in 1..Len(move_list) :
          LET b == make_move(Board, move_list[i])
          IN  /\ squares' = b.squares
              /\ turn' = b.turn
              /\ castling_rights' = b.castling_rights
              /\ en_passant_target' = b.en_passant_target
              /\ move_list' = generate_moves(b)
              /\ last_move' = move_list[i]
    /\ prev' = Board
    /\ ply' = ply + 1
    /\ called' = [op |-> "make_move"]
    /\ UNCHANGED <<start, bb, move_generator, position>>

Search ==
    /\ called.op # "search"
    /\ \E depth \in 1..MaxDepth :
          called' = [op |-> "search", depth |-> depth,
                     best_move |-> search_best_move(Board, depth),
                     negamax |-> negamax(Board, depth)]
    /\ UNCHANGED <<bb, move_generator, position, boardVars>>

NextSearch == PlayMove \/ Search

SpecSearch == InitSearch /\ [][NextSearch]_vars

(***************************************************************************)
(* main.rs: the command loop.  board is the mailbox board of the engine,    *)
(* `called` the last command with what it printed, the number of commands   *)
(* read, the build, and whether the loop is still running.                  *)
(***************************************************************************)
\* The largest number of commands read
MaxCommands == 3

\* go is sent on positions with at most this many legal moves
MaxGoMoves == 8

\* The fixed depth of the search of go
GoDepth == 4

EmptyPlacement ==
    <<"8", "/", "8", "/", "8", "/", "8", "/", "8", "/", "8", "/", "8", "/", "8">>

\* The texts after `position fen`, as their whitespace-separated parts.
FenInputs ==
    {[name |-> "promotion", parts |-> Fen_promotion],
     [name |-> "stalemate", parts |-> Fen_stalemate],
     [name |-> "checkmate", parts |-> Fen_checkmate],
     [name |-> "pin", parts |-> Fen_pin],
     [name |-> "unknown_letter",
      parts |-> Fen(<<"x", "7">> \o SubSeq(EmptyPlacement, 2, 15), "w", <<"-">>, <<"-">>)],
     [name |-> "unknown_turn", parts |-> Fen(EmptyPlacement, "x", <<"-">>, <<"-">>)],
     [name |-> "one_part", parts |-> <<EmptyPlacement>>],
     [name |-> "two_parts", parts |-> <<EmptyPlacement, <<"w">> >>],
     [name |-> "nine_files",
      parts |-> Fen(<<"p", "p", "p", "p", "p", "p", "p", "p", "p">>
                        \o SubSeq(EmptyPlacement, 2, 15), "w", <<"-">>, <<"-">>)]}

InitUci ==
    /\ IdleBoard
    /\ bb = EMPTY
    /\ move_generator = NoMoveGenerator
    /\ position = NoPosition
    /\ \E overflow_checks \in Builds :
          called = [op |-> "start", n |-> 0, running |-> TRUE,
                    overflow_checks |-> overflow_checks]

Command(op) ==
    [op |-> op, n |-> called.n + 1, running |-> TRUE,
     overflow_checks |-> called.overflow_checks]

SetBoard(b, name) ==
    /\ squares' = b.squares
    /\ turn' = b.turn
    /\ castling_rights' = b.castling_rights
    /\ en_passant_target' = b.en_passant_target
    /\ move_list' = generate_moves(b)
    /\ start' = name
    /\ prev' = Board
    /\ UNCHANGED <<ply, last_move>>

\* "uci" and "isready": an answer is printed, the board is not touched.
UciIsReady ==
    /\ called.running /\ called.n < MaxCommands
    /\ \E op \in {"uci", "isready"} : called' = Command(op)
    /\ UNCHANGED <<bb, move_generator, position, boardVars>>

\* "ucinewgame" and "position startpos" (without moves).
NewGame ==
    /\ called.running /\ called.n < MaxCommands
    /\ \E op \in {"ucinewgame", "position startpos"} : called' = Command(op)
    /\ SetBoard(from_fen(Fen_opening, called.overflow_checks).board, "opening")
    /\ UNCHANGED <<bb, move_generator, position>>

\* "position fen <FEN>" (without moves): the board is replaced when from_fen
\* returns Ok, the error is logged when it returns Err, and a panic of
\* from_fen ends the process.
PositionFen ==
    /\ called.running /\ called.n < MaxCommands
    /\ \E input \in FenInputs :
          LET r == from_fen(input.parts, called.overflow_checks)
          IN  /\ called' = [Command("position fen") EXCEPT
                                !.running = r.tag # "Panic"]
                               @@ [fen |-> input.name, result |-> r.tag]
              /\ IF r.tag = "Ok" THEN SetBoard(r.board, input.name)
                 ELSE /\ prev' = Board
                      /\ UNCHANGED <<squares, turn, castling_rights,
                                     en_passant_target, move_list, start, ply,
                                     last_move>>
    /\ UNCHANGED <<bb, move_generator, position>>

\* "go": the board is searched and the best move, or 0000, is printed.
Go ==
    /\ called.running /\ called.n < MaxCommands
    /\ Len(move_list) <= MaxGoMoves
    /\ LET best_move == search_best_move(Board, GoDepth)
       IN  called' = Command("go") @@
               [searched |-> Board,
                bestmove |-> IF best_move = << >> THEN <<48, 48, 48, 48>>
                             ELSE best_move]
    /\ UNCHANGED <<bb, move_generator, position, boardVars>>

\* "quit" leaves the loop.
Quit ==
    /\ called.running /\ called.n < MaxCommands
    /\ called' = [Command("quit") EXCEPT !.running = FALSE]
    /\ UNCHANGED <<bb, move_generator, position, boardVars>>

NextUci == UciIsReady \/ NewGame \/ PositionFen \/ Go \/ Quit

SpecUci == InitUci /\ [][NextUci]_vars

(***************************************************************************)
(* bitboard.rs: BitboardIterator.  The iterator holds the bits not yet      *)
(* yielded; next yields the lowest one with the bits left after it.         *)
(***************************************************************************)
\* Variant of next that takes the highest bit.
BitboardIterator_next_highest(itr) ==
    LET square == CHOOSE s \in itr : \A t \in itr : t <= s
    IN  [square |-> square, bb |-> itr \ {square}]

\* next on a non-empty iterator: square is trailing_zeros(bb), and
\* bb &= bb - 1, where bb - 1 clears the lowest set bit and sets the bits
\* below it.
BitboardIterator_next(itr) ==
    LET square == trailing_zeros(itr)
        bb_minus_1 == (itr \ {square}) \cup (0..(square - 1))
    IN  [square |-> square, bb |-> itr \cap bb_minus_1]

\* ---- An iterator is made of a bitboard (PieceItr::iter) and next is called
\* until it returns None.
IterInputs ==
    {EMPTY, Square, RANK_1, RANK_8, FILE_A, FILE_H, from_square(0), from_square(63),
     {0, 63}, {7, 8, 9}, {1, 3, 5, 7, 62}, BishopDiagonal(3, 3, 1, 1)}

InitIter ==
    /\ \E b \in IterInputs :
          /\ bb = b
          /\ called = [op |-> "iter", of |-> b, items |-> << >>, done |-> FALSE]
    /\ move_generator = NoMoveGenerator
    /\ position = NoPosition
    /\ IdleBoard

IterNext ==
    /\ ~called.done
    /\ IF bb = EMPTY
       THEN /\ called' = [called EXCEPT !.op = "next", !.done = TRUE]
            /\ bb' = bb
       ELSE LET item == BitboardIterator_next(bb)
            IN  /\ bb' = item.bb
                /\ called' = [called EXCEPT !.op = "next",
                                            !.items = Append(@, item.square)]
    /\ UNCHANGED <<move_generator, position, boardVars>>

SpecIter == InitIter /\ [][IterNext]_vars

\* ---- Positions for the pawn generators: a Position is created for a side
\* to move and an en-passant square, and pawns and the pieces around them are
\* added to it.
MaxPawnCalls == 3

PawnPlacements ==
    {<<Piece(White, Pawn), Sq("a", 2)>>, <<Piece(White, Pawn), Sq("e", 5)>>,
     <<Piece(White, Pawn), Sq("g", 7)>>, <<Piece(White, Pawn), Sq("h", 4)>>,
     <<Piece(White, Pawn), Sq("c", 8)>>,
     <<Piece(Black, Pawn), Sq("d", 5)>>, <<Piece(Black, Pawn), Sq("b", 2)>>,
     <<Piece(Black, Pawn), Sq("h", 7)>>, <<Piece(Black, Pawn), Sq("g", 4)>>,
     <<Piece(Black, Knight), Sq("b", 3)>>, <<Piece(Black, Rook), Sq("h", 8)>>,
     <<Piece(White, Knight), Sq("c", 1)>>, <<Piece(Black, King), Sq("f", 6)>>,
     <<Piece(White, King), Sq("a", 1)>>, <<Piece(White, Rook), Sq("a", 3)>>,
     <<Piece(Black, Bishop), Sq("a", 4)>>, <<Piece(Black, Queen), Sq("h", 6)>>}

EnPassantSquares == {NoSquare, Sq("d", 6), Sq("h", 3), Sq("a", 3)}

InitPawns ==
    /\ bb = EMPTY
    /\ move_generator = NoMoveGenerator
    /\ \E side_to_move \in Color, en_passant \in EnPassantSquares :
          position = Position_new(GameState_new(side_to_move, en_passant))
    /\ called = [op |-> "new", n |-> 0]
    /\ IdleBoard

AddPawnPiece ==
    /\ called.n < MaxPawnCalls
    /\ \E pl \in PawnPlacements :
          /\ position.board[pl[2]] = Piece_EMPTY
          /\ position' = add_piece(position, pl[1], pl[2])
          /\ called' = [op |-> "add_piece", n |-> called.n + 1,
                        piece |-> pl[1], square |-> pl[2]]
    /\ UNCHANGED <<bb, move_generator, boardVars>>

SpecPawns == InitPawns /\ [][AddPawnPiece]_vars

(***************************************************************************)
(* types.rs: CastlingRights, the four rights as a struct.  Nothing in the   *)
(* program calls remove_castling_rights; it is called here on the rights    *)
(* read from a castling field.                                             *)
(***************************************************************************)
CastlingRights_from_fen(fen) ==
    [white_kingside |-> \E i \in 1..Len(fen) : fen[i] = "K",
     white_queenside |-> \E i \in 1..Len(fen) : fen[i] = "Q",
     black_kingside |-> \E i \in 1..Len(fen) : fen[i] = "k",
     black_queenside |-> \E i \in 1..Len(fen) : fen[i] = "q"]

can_castle(rights, color, kingside) ==
    CASE color = White /\ kingside -> rights.white_kingside
      [] color = White /\ ~kingside -> rights.white_queenside
      [] color = Black /\ kingside -> rights.black_kingside
      [] color = Black /\ ~kingside -> rights.black_queenside

remove_castling_rights(rights, color, kingside) ==
    CASE color = White /\ kingside -> [rights EXCEPT !.white_kingside = FALSE]
      [] color = White /\ ~kingside -> [rights EXCEPT !.white_queenside = FALSE]
      [] color = Black /\ kingside -> [rights EXCEPT !.black_kingside = FALSE]
      [] color = Black /\ ~kingside -> [rights EXCEPT !.black_queenside = FALSE]

CastlingFields ==
    {<<"-">>, <<"K", "Q", "k", "q">>, <<"K", "q">>, <<"Q">>, <<"k", "q">>}

InitCastlingRights ==
    /\ \E fen \in CastlingFields :
          called = [op |-> "CastlingRights::from_fen", fen |-> fen,
                    rights |-> CastlingRights_from_fen(fen)]
    /\ bb = EMPTY
    /\ move_generator = NoMoveGenerator
    /\ position = NoPosition
    /\ IdleBoard

RemoveCastlingRights ==
    /\ \E color \in {White, Black}, kingside \in BOOLEAN :
          called' = [op |-> "remove_castling_rights", fen |-> called.fen,
                     color |-> color, kingside |-> kingside,
                     held |-> can_castle(called.rights, color, kingside),
                     rights |-> remove_castling_rights(called.rights, color,
                                                       kingside)]
    /\ UNCHANGED <<bb, move_generator, position, boardVars>>

SpecCastlingRights == InitCastlingRights /\ [][RemoveCastlingRights]_vars

(***************************************************************************)
(* Properties.  The attack probe below is written from the rules of chess, *)
(* outward from the probed square, and shares nothing with the generators. *)
(***************************************************************************)
KnightOffsets == {d \in (-2..2) \X (-2..2) : d[1] * d[1] + d[2] * d[2] = 5}

KingOffsets == ((-1..1) \X (-1..1)) \ {<<0, 0>>}

OrthogonalOffsets == {d \in KingOffsets : d[1] = 0 \/ d[2] = 0}

DiagonalOffsets == KingOffsets \ OrthogonalOffsets

PawnAttacks(sqs, sq, by) ==
    LET rank == RankOf(sq) + (IF by = White THEN -1 ELSE 1)
    IN  \E df \in {-1, 1} :
            /\ OnBoard(rank, FileOf(sq) + df)
            /\ sqs[coord_to_index(rank, FileOf(sq) + df)] = Piece(by, Pawn)

LeaperAttacks(sqs, sq, by, kind, offsets) ==
    \E d \in offsets :
        /\ OnBoard(RankOf(sq) + d[1], FileOf(sq) + d[2])
        /\ sqs[coord_to_index(RankOf(sq) + d[1], FileOf(sq) + d[2])] = Piece(by, kind)

SliderAttacks(sqs, sq, by, kinds, offsets) ==
    \E d \in offsets : \E k \in 1..7 :
        /\ OnBoard(RankOf(sq) + k * d[1], FileOf(sq) + k * d[2])
        /\ LET p == sqs[coord_to_index(RankOf(sq) + k * d[1], FileOf(sq) + k * d[2])]
           IN  p.color = by /\ p.piece_type \in kinds
        /\ \A j \in 1..(k - 1) :
               sqs[coord_to_index(RankOf(sq) + j * d[1], FileOf(sq) + j * d[2])] = None

Attacked(sqs, sq, by) ==
    \/ PawnAttacks(sqs, sq, by)
    \/ LeaperAttacks(sqs, sq, by, Knight, KnightOffsets)
    \/ LeaperAttacks(sqs, sq, by, King, KingOffsets)
    \/ SliderAttacks(sqs, sq, by, {Rook, Queen}, OrthogonalOffsets)
    \/ SliderAttacks(sqs, sq, by, {Bishop, Queen}, DiagonalOffsets)

KingsOf(sqs, color) == {i \in Square : sqs[i] = Piece(color, King)}

InCheck(sqs, color) ==
    \E k \in KingsOf(sqs, color) : Attacked(sqs, k, Opposite(color))

InMoveList(mv) == \E j \in 1..Len(move_list) : move_list[j] = mv

\* C1: perft from the standard opening position is 20 at depth 1, 400 at
\* depth 2, 8902 at depth 3 and 197281 at depth 4.
PerftOpening ==
    (start = "opening" /\ ply = 0) =>
        /\ perft(Board, 1) = 20
        /\ perft(Board, 2) = 400
        /\ perft(Board, 3) = 8902
        /\ perft(Board, 4) = 197281

\* The opening position, with the twenty moves perft counts at depth 1.
PerftOpeningReached ==
    start = "opening" /\ ply = 0 /\ Len(move_list) = 20 /\ squares = prev.squares

\* C2: generate_moves returns exactly the pseudo-legal moves after which the
\* mover's king is not attacked by the opponent.
LegalIffKingSafe ==
    LET pseudo == generate_pseudo_moves(Board)
    IN  /\ \A j \in 1..Len(move_list) :
               \E i \in 1..Len(pseudo) : pseudo[i] = move_list[j]
        /\ \A i \in 1..Len(pseudo) :
               InMoveList(pseudo[i])
                   <=> ~InCheck(make_move(Board, pseudo[i]).squares, turn)

\* The piece on index stands between its own king and an enemy rook or queen
\* on one file, with no other piece between the two.
PinnedOnFile(index) ==
    /\ squares[index].color = turn
    /\ squares[index].piece_type # King
    /\ \E k \in KingsOf(squares, turn) : \E e \in Square :
          /\ FileOf(k) = FileOf(index) /\ FileOf(e) = FileOf(index)
          /\ squares[e].color = Opposite(turn)
          /\ squares[e].piece_type \in {Rook, Queen}
          /\ (k < index /\ index < e) \/ (e < index /\ index < k)
          /\ \A i \in Square :
                 ( /\ FileOf(i) = FileOf(index)
                   /\ i # index
                   /\ (k < i /\ i < e) \/ (e < i /\ i < k) ) => squares[i] = None

\* C2, the pin: a piece pinned to its king along a file (the king not being
\* in check) keeps exactly its pseudo-legal moves along that file.
PinnedKeepsFileMoves ==
    \A index \in Square :
        (PinnedOnFile(index) /\ ~InCheck(squares, turn)) =>
            LET pseudo == PieceMoves(Board, index)
            IN  \A i \in 1..Len(pseudo) :
                    InMoveList(pseudo[i]) <=> FileOf(pseudo[i].to) = FileOf(index)

\* C2: a pseudo-legal move is in generate_moves if and only if the mover's
\* king is not attacked after it; a piece pinned on a file keeps exactly its
\* moves along the file.
LegalityFilter == LegalIffKingSafe /\ PinnedKeepsFileMoves

\* A pinned piece, one of whose pseudo-legal moves the filter removed while
\* another was kept.
LegalityFilterPinReached ==
    \E index \in Square :
        /\ PinnedOnFile(index)
        /\ ~InCheck(squares, turn)
        /\ LET pseudo == PieceMoves(Board, index)
           IN  /\ \E i \in 1..Len(pseudo) : ~InMoveList(pseudo[i])
               /\ \E i \in 1..Len(pseudo) : InMoveList(pseudo[i])

\* C3: in every position reached from the opening by moves of generate_moves
\* each colour has exactly one king, and no generated move lands on a king.
OneKingPerColour ==
    start = "opening" =>
        /\ \A c \in Color : Cardinality(KingsOf(squares, c)) = 1
        /\ \A j \in 1..Len(move_list) : squares[move_list[j].to].piece_type # King

\* A position of a game from the opening in which the side to move is in check.
OneKingPerColourInCheckReached ==
    start = "opening" /\ ply > 0 /\ InCheck(squares, turn)
        /\ Len(move_list) < Len(generate_pseudo_moves(Board))

(***************************************************************************)
(* Castling                                                                *)
(***************************************************************************)
CastlingRight == {"K", "Q", "k", "q"}

\* CastlingRights::from_fen: a right is held when its letter occurs.
HasRight(b, r) == \E i \in 1..Len(b.castling_rights) : b.castling_rights[i] = r

RightColor(r) == IF r \in {"K", "Q"} THEN White ELSE Black

HomeRank(color) == IF color = White THEN 1 ELSE 8

\* The corner the rook of a right starts on, and the squares of its castling.
RookCorner(r) == Sq(IF r \in {"K", "k"} THEN "h" ELSE "a", HomeRank(RightColor(r)))

KingHome(r) == Sq("e", HomeRank(RightColor(r)))

KingDestination(r) == Sq(IF r \in {"K", "k"} THEN "g" ELSE "c", HomeRank(RightColor(r)))

RookDestination(r) == Sq(IF r \in {"K", "k"} THEN "f" ELSE "d", HomeRank(RightColor(r)))

BetweenKingAndRook(r) ==
    {Sq(f, HomeRank(RightColor(r))) :
        f \in IF r \in {"K", "k"} THEN {"f", "g"} ELSE {"b", "c", "d"}}

KingPath(r) == {KingHome(r), RookDestination(r), KingDestination(r)}

\* C4: over the make_move calls of a game a castling right that is cleared is
\* never set again.
CastlingRightsLatch ==
    ply > 0 => \A r \in CastlingRight : ~HasRight(prev, r) => ~HasRight(Board, r)

\* After a make_move call, a position with one right cleared and another held.
CastlingRightsLatchReached ==
    /\ ply > 0
    /\ \E r \in CastlingRight : ~HasRight(prev, r) /\ ~HasRight(Board, r)
    /\ \E r \in CastlingRight : HasRight(prev, r) /\ HasRight(Board, r)

\* C5: make_move of a king move clears both castling rights of the mover and
\* leaves the opponent's rights unchanged.
KingMoveClearsRights ==
    (ply > 0 /\ prev.squares[last_move.from].piece_type = King) =>
        \A r \in CastlingRight :
            IF RightColor(r) = prev.turn
            THEN ~HasRight(Board, r)
            ELSE HasRight(Board, r) <=> HasRight(prev, r)

\* C6: make_move clears the right tied to a corner when the rook leaves that
\* corner or is captured on it, and a rook move or a capture of a rook clears
\* no other right.
RookMoveClearsRight ==
    (ply > 0 /\ prev.squares[last_move.from].piece_type # King) =>
        \A r \in CastlingRight :
            LET rook == Piece(RightColor(r), Rook)
                left == last_move.from = RookCorner(r) /\ prev.squares[last_move.from] = rook
                captured == last_move.to = RookCorner(r) /\ prev.squares[last_move.to] = rook
            IN  IF left \/ captured
                THEN ~HasRight(Board, r)
                ELSE HasRight(Board, r) <=> HasRight(prev, r)

\* The conditions of castling with right r in the position, for the side to move.
CanCastle(r) ==
    /\ RightColor(r) = turn
    /\ HasRight(Board, r)
    /\ squares[KingHome(r)] = Piece(turn, King)
    /\ squares[RookCorner(r)] = Piece(turn, Rook)
    /\ \A i \in BetweenKingAndRook(r) : squares[i] = None
    /\ \A i \in KingPath(r) : ~Attacked(squares, i, Opposite(turn))

\* C7: the king's two-square castling move is generated if and only if the
\* right is held, the squares between king and rook are empty and none of
\* the king's square, the square it crosses and its destination is attacked.
CastlingGenerated ==
    \A r \in CastlingRight :
        RightColor(r) = turn =>
            (InMoveList(Move_new(KingHome(r), KingDestination(r))) <=> CanCastle(r))

\* C8: make_move of a castling move puts the king on its destination and the
\* rook of that side on the square the king crossed, leaving the corner empty.
CastlingMovesRook ==
    \A r \in CastlingRight :
        CanCastle(r) =>
            LET b == make_move(Board, Move_new(KingHome(r), KingDestination(r)))
            IN  /\ b.squares[KingDestination(r)] = Piece(turn, King)
                /\ b.squares[KingHome(r)] = None
                /\ b.squares[RookDestination(r)] = Piece(turn, Rook)
                /\ b.squares[RookCorner(r)] = None

(***************************************************************************)
(* En passant                                                              *)
(***************************************************************************)
\* A pawn advancing two squares from the rank it starts the game on.
IsDoublePush(b, mv) ==
    LET piece == b.squares[mv.from]
    IN  /\ piece.piece_type = Pawn
        /\ \/ piece.color = White /\ RankOf(mv.from) = 1 /\ mv.to = mv.from + 16
           \/ piece.color = Black /\ RankOf(mv.from) = 6 /\ mv.to = mv.from - 16

\* C9: after make_move the en-passant target is the square the pawn passed
\* over if the move was a pawn's double push from its start rank, and absent
\* otherwise (so a target is cleared by the next move that is no double push).
EnPassantTargetAfterMove ==
    ply > 0 =>
        IF IsDoublePush(prev, last_move)
        THEN 2 * en_passant_target = last_move.from + last_move.to
        ELSE en_passant_target = NoSquare

\* A target set by a double push and cleared by the following move.
EnPassantTargetClearedReached ==
    /\ ply > 0
    /\ prev.en_passant_target # NoSquare
    /\ ~IsDoublePush(prev, last_move)
    /\ en_passant_target = NoSquare

\* C10: in a position reached from the opening, a set en-passant target lies
\* on the third rank when Black is to move and on the sixth when White is,
\* is empty, and has a pawn of the side that just moved on the square beyond.
EnPassantTargetWellFormed ==
    (start = "opening" /\ en_passant_target # NoSquare) =>
        LET mover == Opposite(turn)
            beyond == IF mover = White THEN en_passant_target + 8
                      ELSE en_passant_target - 8
        IN  /\ RankOf(en_passant_target) + 1 = (IF turn = Black THEN 3 ELSE 6)
            /\ squares[en_passant_target] = None
            /\ beyond \in Square
            /\ squares[beyond] = Piece(mover, Pawn)

\* A game from the opening in which Black's double push has set a target.
EnPassantTargetWellFormedReached ==
    start = "opening" /\ en_passant_target # NoSquare /\ turn = White

(***************************************************************************)
(* En-passant capture, move targets, sliding pieces, promotions            *)
(***************************************************************************)
\* The squares diagonally behind t for a pawn of the given colour.
DiagonallyBehind(t, color) ==
    LET rank == RankOf(t) + (IF color = White THEN -1 ELSE 1)
    IN  {coord_to_index(rank, FileOf(t) + df) :
            df \in {df \in {-1, 1} : OnBoard(rank, FileOf(t) + df)}}

\* The pawns of the side to move that stand diagonally behind the target.
EnPassantCapturers ==
    IF en_passant_target = NoSquare \/ squares[en_passant_target] # None THEN {}
    ELSE {from \in DiagonallyBehind(en_passant_target, turn) :
              squares[from] = Piece(turn, Pawn)}

\* C11: with en_passant_target = t, the move to t of a pawn of the side to
\* move standing diagonally behind t is pseudo-legal, is in generate_moves
\* unless it leaves the mover's king attacked, and make_move of it puts the
\* pawn on t, empties its from square and empties (file of t, rank of from).
EnPassantCapture ==
    \A from \in EnPassantCapturers :
        LET mv == Move_new(from, en_passant_target)
            b == make_move(Board, mv)
            pseudo == PieceMoves(Board, from)
            victim == coord_to_index(RankOf(from), FileOf(en_passant_target))
        IN  /\ \E i \in 1..Len(pseudo) : pseudo[i] = mv
            /\ InMoveList(mv) <=> ~InCheck(b.squares, turn)
            /\ b.squares[en_passant_target] = Piece(turn, Pawn)
            /\ b.squares[from] = None
            /\ b.squares[victim] = None
            /\ \A i \in Square \ {from, victim, en_passant_target} :
                   b.squares[i] = squares[i]

\* A position reached by an en-passant capture: the enemy pawn that stood
\* beside the capturing pawn is gone.
EnPassantCaptureReached ==
    /\ ply > 0
    /\ prev.squares[last_move.from].piece_type = Pawn
    /\ last_move.to = prev.en_passant_target
    /\ prev.squares[coord_to_index(RankOf(last_move.from), FileOf(last_move.to))]
           = Piece(turn, Pawn)
    /\ squares[coord_to_index(RankOf(last_move.from), FileOf(last_move.to))] = None
    /\ squares[last_move.to] = Piece(prev.turn, Pawn)

\* C12: for every generated move the from square holds a piece of the side
\* to move and the to square holds no piece of that colour.
MoveEndpoints ==
    LET pseudo == generate_pseudo_moves(Board)
    IN  /\ \A i \in 1..Len(pseudo) :
               /\ squares[pseudo[i].from].color = turn
               /\ squares[pseudo[i].to].color # turn
        /\ \A j \in 1..Len(move_list) :
               /\ squares[move_list[j].from].color = turn
               /\ squares[move_list[j].to].color # turn

\* A position with a generated capture and with a piece of the side to move
\* standing next to another one.
MoveEndpointsReached ==
    /\ \E j \in 1..Len(move_list) : squares[move_list[j].to].color = Opposite(turn)
    /\ \E j \in 1..Len(move_list) :
           squares[move_list[j].from].piece_type \in {Knight, King}
    /\ \E i \in Square : \E d \in KingOffsets :
           /\ OnBoard(RankOf(i) + d[1], FileOf(i) + d[2])
           /\ squares[i].color = turn
           /\ squares[coord_to_index(RankOf(i) + d[1], FileOf(i) + d[2])].color = turn

RayOffsets(kind) ==
    CASE kind = Rook -> OrthogonalOffsets
      [] kind = Bishop -> DiagonalOffsets
      [] kind = Queen -> KingOffsets

\* The squares a slider on index reaches: along each of its rays every empty
\* square up to the first occupied one, and that one when it holds an enemy.
SliderReach(index) ==
    {t \in Square :
        \E d \in RayOffsets(squares[index].piece_type) : \E k \in 1..7 :
            /\ OnBoard(RankOf(index) + k * d[1], FileOf(index) + k * d[2])
            /\ t = coord_to_index(RankOf(index) + k * d[1], FileOf(index) + k * d[2])
            /\ squares[t].color # squares[index].color
            /\ \A j \in 1..(k - 1) :
                   squares[coord_to_index(RankOf(index) + j * d[1],
                                          FileOf(index) + j * d[2])] = None}

Sliders == {i \in Square : squares[i].color = turn
                           /\ squares[i].piece_type \in {Rook, Bishop, Queen}}

\* Of gen_sliding_moves of the mailbox board: the generated moves of a rook,
\* bishop or queen go exactly to the squares along its rays up to the first
\* occupied square, which is a target when it holds an enemy piece and not
\* when it holds a friendly one.
SlidingMovesStopAtBlocker ==
    \A index \in Sliders :
        LET pseudo == PieceMoves(Board, index)
        IN  /\ {pseudo[i].to : i \in 1..Len(pseudo)} = SliderReach(index)
            /\ \A i \in 1..Len(pseudo) :
                   pseudo[i].from = index /\ pseudo[i].promotion = NoPromotion
            /\ \A j \in 1..Len(move_list) :
                   move_list[j].from = index => move_list[j].to \in SliderReach(index)

\* A slider of the side to move with an enemy piece, a friendly piece and a
\* square behind a blocker on its rays.
SlidingMovesBlockedReached ==
    \E index \in Sliders :
        LET reach == SliderReach(index)
            line == {t \in Square \ {index} :
                        \E d \in RayOffsets(squares[index].piece_type) : \E k \in 1..7 :
                            /\ OnBoard(RankOf(index) + k * d[1], FileOf(index) + k * d[2])
                            /\ t = coord_to_index(RankOf(index) + k * d[1],
                                                  FileOf(index) + k * d[2])}
        IN  /\ \E t \in reach : squares[t].color = Opposite(turn)
            /\ \E t \in line \ reach : squares[t].color = turn
            /\ \E t \in line \ reach : squares[t] = None
            /\ \E j \in 1..Len(move_list) : move_list[j].from = index

PromotionKinds == {Queen, Rook, Bishop, Knight}

\* The pawns of the side to move on the rank before their last rank.
PrePromotionPawns ==
    {i \in Square : squares[i] = Piece(turn, Pawn)
                    /\ RankOf(i) = (IF turn = White THEN 6 ELSE 1)}

\* The last-rank targets of such a pawn: the square ahead when it is empty
\* and the squares diagonally ahead that hold an enemy piece.
LastRankTargets(from) ==
    LET rank == IF turn = White THEN 7 ELSE 0
    IN  {coord_to_index(rank, FileOf(from) + df) :
            df \in {df \in {-1, 0, 1} :
                      /\ OnBoard(rank, FileOf(from) + df)
                      /\ LET p == squares[coord_to_index(rank, FileOf(from) + df)]
                         IN  IF df = 0 THEN p = None ELSE p.color = Opposite(turn)}}

MovesBetween(list, from, to) ==
    {i \in 1..Len(list) : list[i].from = from /\ list[i].to = to}

\* C16: for a pawn on its pre-promotion rank every push or capture target on
\* the last rank yields exactly four moves, one for each of Queen, Rook,
\* Bishop and Knight, and no move onto the last rank without a promotion.
PromotionMoves ==
    \A from \in PrePromotionPawns :
        LET pseudo == PieceMoves(Board, from)
        IN  /\ \A to \in LastRankTargets(from) :
                   /\ Cardinality(MovesBetween(pseudo, from, to)) = 4
                   /\ {pseudo[i].promotion : i \in MovesBetween(pseudo, from, to)}
                          = PromotionKinds
                   /\ Cardinality(MovesBetween(move_list, from, to)) \in {0, 4}
                   /\ {move_list[i].promotion : i \in MovesBetween(move_list, from, to)}
                          \in {{}, PromotionKinds}
            /\ \A i \in 1..Len(pseudo) :
                   /\ pseudo[i].to \in LastRankTargets(from)
                   /\ pseudo[i].promotion # NoPromotion

\* A pawn on its pre-promotion rank with a push target and a capture target,
\* whose promotions are in the list of generate_moves.
PromotionMovesReached ==
    \E from \in PrePromotionPawns :
        /\ \E to \in LastRankTargets(from) :
               FileOf(to) = FileOf(from)
               /\ Cardinality(MovesBetween(move_list, from, to)) = 4
        /\ \E to \in LastRankTargets(from) :
               FileOf(to) # FileOf(from)
               /\ Cardinality(MovesBetween(move_list, from, to)) = 4

(***************************************************************************)
(* Properties of the bitboard code                                         *)
(***************************************************************************)
\* The (rank, file) step of each of the eight directions.
DirectionStep(direction) ==
    CASE direction = UP         -> <<1, 0>>
      [] direction = DOWN       -> <<-1, 0>>
      [] direction = RIGHT      -> <<0, 1>>
      [] direction = LEFT       -> <<0, -1>>
      [] direction = UP + RIGHT   -> <<1, 1>>
      [] direction = UP + LEFT    -> <<1, -1>>
      [] direction = DOWN + RIGHT -> <<-1, 1>>
      [] direction = DOWN + LEFT  -> <<-1, -1>>

\* The on-board squares one step of (rank, file) offset d from a square of a.
OneStepFrom(a, d) ==
    {coord_to_index(RankOf(i) + d[1], FileOf(i) + d[2]) :
        i \in {j \in a : OnBoard(RankOf(j) + d[1], FileOf(j) + d[2])}}

\* C14: for each of the eight directions, shift of a bitboard is exactly the
\* set of on-board squares one step in that direction from a set square: no
\* bit wraps between files a and h, and bits pushed past rank 8 or rank 1 are
\* dropped.  Stated of every bitboard reached and of every shift made.
ShiftIsOneStep ==
    /\ \A direction \in Directions :
          shift(bb, direction) = OneStepFrom(bb, DirectionStep(direction))
    /\ called.op = "shift"
          => bb = OneStepFrom(called.bb, DirectionStep(called.direction))

\* A shift to the right of a bitboard with bits on file h and elsewhere: the
\* bits of file h are dropped and the others move.
ShiftDroppedFileH ==
    /\ called.op = "shift"
    /\ called.direction = RIGHT
    /\ called.bb \cap FILE_H # EMPTY
    /\ bb # EMPTY
    /\ Cardinality(bb) < Cardinality(called.bb)
    /\ bb \cap FILE_A = EMPTY

\* The squares a knight's jump away from s.
KnightJumpsFrom(s) ==
    UNION {OneStepFrom({s}, d) : d \in KnightOffsets}

\* The entries of the knight table that KnightLookup::new has filled.
KnightEntriesBuilt ==
    IF called.op = "KnightLookup::new" THEN 0..called.i
    ELSE IF called.op \in {"KingLookup::new", "SlidingLookup::new"} THEN Square
    ELSE {}

Corners == {Sq("a", 1), Sq("h", 1), Sq("a", 8), Sq("h", 8)}

Central == {s \in Square : RankOf(s) \in 2..5 /\ FileOf(s) \in 2..5}

\* C15: the knight table entry of every square s is exactly the set of
\* on-board squares a knight's jump from s, without wrap across the a/b or g/h
\* files: 2 squares from a corner, 8 from a central square.
KnightTableIsKnightJumps ==
    /\ \A s \in KnightEntriesBuilt :
          /\ move_generator.knight_lookup[s] = KnightJumpsFrom(s)
          /\ s \in Corners => Cardinality(move_generator.knight_lookup[s]) = 2
          /\ s \in Central => Cardinality(move_generator.knight_lookup[s]) = 8
    /\ KnightEntriesBuilt = Square
          => move_generator.knight_lookup = MoveGenerator_new.knight_lookup

\* The knight table with all 64 entries filled.
KnightTableBuilt ==
    /\ called.op = "KnightLookup::new"
    /\ called.i = 63
    /\ move_generator.knight_lookup[Sq("a", 1)] = {Sq("b", 3), Sq("c", 2)}
    /\ move_generator.knight_lookup[Sq("g", 1)] = {Sq("e", 2), Sq("f", 3), Sq("h", 3)}
    /\ Cardinality(move_generator.knight_lookup[Sq("d", 4)]) = 8

\* The mailbox and the bitboards of a Position say the same.
PositionAgrees(p) ==
    /\ p.all_pieces_bitboard
         = p.by_color_bitboards[White] \cup p.by_color_bitboards[Black]
    /\ p.by_color_bitboards[White] \cap p.by_color_bitboards[Black] = EMPTY
    /\ UNION {p.by_type_bitboards[k] : k \in PieceType} = p.all_pieces_bitboard
    /\ \A s \in Square, c \in Color, k \in PieceType :
          p.board[s] = Piece(c, k)
             <=> (s \in p.by_color_bitboards[c] /\ s \in p.by_type_bitboards[k])

\* C17: from an empty Position, after any sequence of add_piece onto empty
\* squares and move_piece from an occupied to an empty square, all_pieces is
\* the union of the two disjoint colour bitboards and of the six kind
\* bitboards, and board[s] holds (c, k) exactly when bit s is set in
\* by_color[c] and in by_type[k].
MailboxAndBitboardsAgree == PositionAgrees(position)

\* A Position with two pieces, the last call a move_piece.
MovedPieceAgrees ==
    /\ called.op = "move_piece"
    /\ called.n = MaxCalls
    /\ Cardinality(position.all_pieces_bitboard) = 2
    /\ position.board[called.from] = Piece_EMPTY
    /\ position.board[called.to] # Piece_EMPTY
    /\ called.to \in position.all_pieces_bitboard

\* What remove_piece is to leave: p without the piece of `square`.
WithoutPiece(p, square) ==
    LET piece == p.board[square]
    IN  [p EXCEPT
           !.by_type_bitboards[piece.piece_type] = @ \ {square},
           !.by_color_bitboards[piece.color] = @ \ {square},
           !.all_pieces_bitboard = @ \ {square},
           !.board[square] = Piece_EMPTY]

\* C18: remove_piece(s) on an occupied square of a Position whose mailbox and
\* bitboards agree clears bit s in the piece's kind bitboard, in its colour
\* bitboard and in all_pieces, empties board[s] and changes nothing else, so
\* that the mailbox and the bitboards agree afterwards.
RemovePieceClearsItsBit ==
    [][(called'.op = "remove_piece" /\ called'.n = called.n + 1
        /\ PositionAgrees(position))
          => /\ position' = WithoutPiece(position, called'.square)
             /\ PositionAgrees(position')]_vars

\* The side to move has a king, so that the king generator returns a list.
HasKing(p) == get_pieces_color_type(p, get_side_to_move(p), King) # EMPTY

\* The moves of a list, as a set.
MovesOf(list) == {list[n] : n \in 1..Len(list)}

Occupied(p, s) == p.board[s] # Piece_EMPTY

HoldsEnemy(p, s) ==
    Occupied(p, s) /\ p.board[s].color = Opposite(get_side_to_move(p))

HoldsOwn(p, s) == Occupied(p, s) /\ p.board[s].color = get_side_to_move(p)

\* The squares a slider of the side to move on `from` reaches in the mailbox
\* of p: along each ray of its kind every empty square up to the first
\* occupied one, and that one when it holds an enemy piece.
RayReach(p, from, kind) ==
    {t \in Square :
        \E d \in RayOffsets(kind) : \E k \in 1..7 :
            /\ OnBoard(RankOf(from) + k * d[1], FileOf(from) + k * d[2])
            /\ t = coord_to_index(RankOf(from) + k * d[1], FileOf(from) + k * d[2])
            /\ ~HoldsOwn(p, t)
            /\ \A j \in 1..(k - 1) :
                   ~Occupied(p, coord_to_index(RankOf(from) + j * d[1],
                                               FileOf(from) + j * d[2]))}

\* C13: every rook, bishop or queen move of the SlidingLookup generators
\* stays on a ray of the piece and stops at the first occupied square: no
\* square beyond the first blocker is a target, a friendly blocker is not a
\* target and an enemy blocker is one.
SlidingLookupStopsAtBlocker ==
    \A kind \in {Rook, Bishop, Queen} :
        \A m \in MovesOf(generate_pseudo_legal_moves(move_generator, position, kind)) :
            m.to \in RayReach(position, m.from, kind)

\* The diagonal neighbours of a square.
DiagonalNeighbours(s) == UNION {OneStepFrom({s}, d) : d \in DiagonalOffsets}

\* C19: generate_all_pseudo_legal_moves holds the pseudo-legal moves of every
\* piece kind of the side to move, and a bishop of the side to move with an
\* empty diagonal neighbour contributes at least one move to it.
AllPieceKindsGenerated ==
    HasKing(position) =>
        LET all == MovesOf(generate_all_pseudo_legal_moves(move_generator, position))
        IN  /\ \A kind \in PieceType :
                  MovesOf(generate_pseudo_legal_moves(move_generator, position, kind))
                      \subseteq all
            /\ \A s \in get_pieces_color_type(position, get_side_to_move(position),
                                              Bishop) :
                  (\E t \in DiagonalNeighbours(s) : ~Occupied(position, t))
                      => \E m \in all : m.from = s

\* The piece kinds C20 speaks of, those of the side to move's pieces for which
\* the generator returns a list.
TaggedKinds(p) ==
    {Knight, Rook, Bishop, Queen} \cup (IF HasKing(p) THEN {King} ELSE {})

\* C20: every generated knight, king, rook, bishop or queen move onto a
\* square holding an enemy piece is tagged Capture, and every one onto an
\* empty square is tagged Quiet.
MovesTaggedByTarget ==
    \A kind \in TaggedKinds(position) :
        \A m \in MovesOf(generate_pseudo_legal_moves(move_generator, position, kind)) :
            /\ HoldsEnemy(position, m.to) => m.kind = "Capture" /\ is_capture(m)
            /\ ~Occupied(position, m.to) => m.kind = "Quiet"

\* Of the bitboard generators: the from square of every generated move holds
\* a piece of the side to move and the to square holds no piece of that
\* colour; the pawn extractors recover from as to - offset.
GeneratedMoveEndpoints ==
    \A kind \in TaggedKinds(position) \cup {Pawn} :
        \A m \in MovesOf(generate_pseudo_legal_moves(move_generator, position, kind)) :
            /\ m.from \in Square
            /\ position.board[m.from] = Piece(get_side_to_move(position), kind)
            /\ m.to \in Square
            /\ ~HoldsOwn(position, m.to)

\* Of generate_pawn_promotions: a pawn on its pre-promotion rank gets, for the
\* empty square ahead and for each diagonal square ahead holding an enemy
\* piece other than the king, the four promotions (push) or the four
\* promotion captures, and no other pawn move reaches the last rank.
PawnPromotionsGenerated ==
    LET side == get_side_to_move(position)
        dirs == PawnDirections_new(side)
        list == generate_pseudo_legal_pawn_moves(position)
        last_rank == IF side = White THEN RANK_8 ELSE RANK_1
    IN  /\ \A s \in (get_pieces_color_type(position, side, Pawn) \cap dirs.rank7) :
              /\ \A t \in OneStepFrom({s}, DirectionStep(dirs.up)) :
                    ~Occupied(position, t) =>
                        \A k \in 1..4 :
                            Cardinality({n \in 1..Len(list) :
                                list[n] = ChessMove(s, t, promotion_itr[k])}) = 1
              /\ \A t \in OneStepFrom({s}, DirectionStep(dirs.up + LEFT))
                          \cup OneStepFrom({s}, DirectionStep(dirs.up + RIGHT)) :
                    (HoldsEnemy(position, t) /\ position.board[t].piece_type # King) =>
                        \A k \in 1..4 :
                            Cardinality({n \in 1..Len(list) :
                                list[n] = ChessMove(s, t, promotion_capture_itr[k])}) = 1
        /\ \A m \in MovesOf(list) :
              m.to \in last_rank => is_promotion(m) \/ is_promotion_capture(m)

(***************************************************************************)
(* Properties of the FEN parsers                                           *)
(***************************************************************************)
PieceLetters == {"K", "Q", "R", "B", "N", "P", "k", "q", "r", "b", "n", "p"}

HasUnknownLetter(pieces) ==
    \E i \in 1..Len(pieces) :
        pieces[i] # "/" /\ DigitValue(pieces[i]) < 0 /\ pieces[i] \notin PieceLetters

\* The text of each rank of a placement, written from the definition of a FEN.
RankCount(pieces) == Cardinality({i \in 1..Len(pieces) : pieces[i] = "/"}) + 1

RankStart(pieces, n) ==
    IF n = 1 THEN 1
    ELSE (CHOOSE i \in 1..Len(pieces) :
             /\ pieces[i] = "/"
             /\ Cardinality({j \in 1..i : pieces[j] = "/"}) = n - 1) + 1

RECURSIVE FilesFrom(_, _)
FilesFrom(pieces, i) ==
    IF i > Len(pieces) \/ pieces[i] = "/" THEN 0
    ELSE (IF DigitValue(pieces[i]) >= 0 THEN DigitValue(pieces[i]) ELSE 1)
             + FilesFrom(pieces, i + 1)

WellShaped(pieces) ==
    /\ RankCount(pieces) = 8
    /\ \A n \in 1..8 : FilesFrom(pieces, RankStart(pieces, n)) = 8

\* C21: a placement with a letter outside KQRBNP/kqrbnp is answered with an
\* error by both parsers: neither returns a board, and no square holds a piece
\* of an unknown kind.
UnknownLetterIsAnError ==
    (called.op = "parse" /\ HasUnknownLetter(called.pieces))
        => /\ called.from_fen.tag = "Err"
           /\ called.parse_piece_positions.tag = "Err"

\* Of Board::from_fen alone: an unknown letter is answered with Err, unless
\* the parse panicked on an earlier character.
FromFenRejectsUnknownLetter ==
    (called.op = "parse" /\ HasUnknownLetter(called.pieces))
        => called.from_fen.tag \in {"Err", "Panic"}

\* C22: a placement that does not have 8 ranks of 8 files each is answered
\* with an error value by both parsers, never with a board and never with a
\* panic.
BadShapeIsAnError ==
    (called.op = "parse" /\ ~WellShaped(called.pieces)
                         /\ ~HasUnknownLetter(called.pieces))
        => /\ called.from_fen.tag = "Err"
           /\ called.parse_piece_positions.tag = "Err"

\* Of FenParser::parse_piece_positions alone: a wrong number of ranks is an
\* error.
RankCountIsChecked ==
    (called.op = "parse" /\ RankCount(called.pieces) # 8)
        => called.parse_piece_positions.tag = "Err"

(***************************************************************************)
(* Properties of the square names                                          *)
(***************************************************************************)
\* The name of a square: the letter a..h of its file, the digit 1..8 of its
\* rank.
AlgebraicName(index) == <<97 + FileOf(index), 49 + RankOf(index)>>

\* C23: the algebraic form of square i is the lowercase file letter of i mod 8
\* followed by the rank digit of i div 8, and from_algebraic brings it back
\* to i.
AlgebraicRoundTrip ==
    called.op = "to_algebraic"
        => /\ called.algebraic = AlgebraicName(called.index)
           /\ called.back = [tag |-> "Ok", index |-> called.index]

\* Of Board::index_to_coord_algebraic and of from_algebraic on lowercase
\* names: both follow the file-letter, rank-digit form.
CoordAlgebraicIsTheName ==
    /\ called.op = "to_algebraic" => called.coord = AlgebraicName(called.index)
    /\ called.op = "from_algebraic"
          => /\ called.square.tag = "Ok"
             /\ AlgebraicName(called.square.index) = called.algebraic

(***************************************************************************)
(* Properties of the search                                                *)
(***************************************************************************)
\* Material balance counted kind by kind: White's pieces minus Black's.
CountOf(sqs, color, kind) == Cardinality({i \in Square : sqs[i] = Piece(color, kind)})

Material(sqs) ==
    LET diff(kind) == CountOf(sqs, White, kind) - CountOf(sqs, Black, kind)
    IN  100 * diff(Pawn) + 320 * diff(Knight) + 330 * diff(Bishop)
            + 500 * diff(Rook) + 900 * diff(Queen)

\* The material after a move, seen from the side that made it.
GainOf(mv) ==
    LET after == Material(make_move(Board, mv).squares)
    IN  IF turn = White THEN after ELSE 0 - after

\* The legal moves of the current position whose text is the search's answer.
Answered == {j \in 1..Len(move_list) : Move_to_string(move_list[j]) = called.best_move}

\* C24: search_best_move(board, 1) returns a legal move, and no legal move
\* leaves the mover a better material evaluation than the returned one.
DepthOneIsGreedy ==
    (called.op = "search" /\ called.depth = 1 /\ move_list # << >>)
        => /\ Answered # {}
           /\ \A j \in Answered : \A k \in 1..Len(move_list) :
                  GainOf(move_list[k]) <= GainOf(move_list[j])

\* Of search_best_move at any depth: the answer is the text of a legal move
\* when there is one, and None otherwise.
AnswerIsLegal ==
    called.op = "search"
        => IF move_list = << >> THEN called.best_move = << >> ELSE Answered # {}

\* The move mates: after it the opponent is in check and has no legal move.
Mates(mv) ==
    LET b == make_move(Board, mv)
    IN  /\ generate_moves(b) = << >>
        /\ InCheck(b.squares, b.turn)

\* C25: when the side to move has a mate in one, search_best_move with depth
\* 2 returns a checkmating move.
MateInOneIsFound ==
    (called.op = "search" /\ called.depth = 2
        /\ \E k \in 1..Len(move_list) : Mates(move_list[k]))
        => /\ Answered # {}
           /\ \A j \in Answered : Mates(move_list[j])

\* C28: on a position without legal moves negamax with depth d >= 1 returns
\* d - MATE_SCORE when the side to move is in check and 0 when it is not, and
\* is_king_attacked(turn) tells the two apart.
NoMovesIsMateOrStalemate ==
    (called.op = "search" /\ move_list = << >>)
        => IF InCheck(squares, turn)
           THEN /\ called.negamax = called.depth - 49000
                /\ is_king_attacked(Board, turn)
           ELSE /\ called.negamax = 0
                /\ ~is_king_attacked(Board, turn)

\* Of the stalemate half alone: without legal moves and without check the
\* score is 0.
StalemateScoresZero ==
    (called.op = "search" /\ move_list = << >> /\ ~InCheck(squares, turn))
        => called.negamax = 0 /\ ~is_king_attacked(Board, turn)

(***************************************************************************)
(* Properties of the command loop                                          *)
(***************************************************************************)
\* A `position fen` command whose FEN was not parsed into a board.
FenNotParsed(c) == c.op = "position fen" /\ c.result # "Ok"

\* C26: a `position fen` command whose FEN fails to parse leaves the board as
\* it was and the command loop running, and a following go searches that
\* board.
FailedFenKeepsBoard ==
    [][/\ FenNotParsed(called') => (Board' = Board /\ called'.running)
       /\ (FenNotParsed(called) /\ called'.op = "go")
              => (called'.searched = prev /\ Board' = prev)]_vars

\* Of the Err answers of from_fen alone: the board is kept, the loop runs on.
RejectedFenKeepsBoard ==
    [][(called'.op = "position fen" /\ called'.result = "Err")
          => (Board' = Board /\ called'.running)]_vars

(***************************************************************************)
(* Properties of the bitboard iterator                                     *)
(***************************************************************************)
\* C27: iterating a bitboard yields its set bits in strictly increasing
\* order, each once, and ends (next returns None) after exactly popcount
\* items; the bits not yet yielded are the ones the iterator still holds.
IterationYieldsEachBitOnce ==
    called.op \in {"iter", "next"} =>
        LET items == called.items
        IN  /\ \A i \in 1..(Len(items) - 1) : items[i] < items[i + 1]
            /\ {items[i] : i \in 1..Len(items)} \cup bb = called.of
            /\ \A i \in 1..Len(items) : items[i] \notin bb
            /\ Len(items) <= Cardinality(called.of)
            /\ called.done => (Len(items) = Cardinality(called.of)
                                  /\ items = BitIter(called.of))

\* An iteration over the whole board that has ended.
IterationEnded ==
    called.op = "next" /\ called.done /\ Len(called.items) = 64

(***************************************************************************)
(* Frame of make_move                                                      *)
(***************************************************************************)
\* The last move was a pawn move onto the en-passant target, or a king move
\* of two files.
LastMoveIsEnPassantOrCastling ==
    \/ /\ prev.squares[last_move.from].piece_type = Pawn
       /\ last_move.to = prev.en_passant_target
    \/ /\ prev.squares[last_move.from].piece_type = King
       /\ RankOf(last_move.from) = RankOf(last_move.to)
       /\ FileOf(last_move.from) - FileOf(last_move.to) \in {-2, 2}

\* C29: make_move of a move that is neither an en-passant capture nor
\* castling changes exactly two squares: from becomes empty and to holds the
\* moved piece, or the promoted piece of the mover's colour; every other
\* square is as before and the turn is the opposite colour.
MakeMoveChangesTwoSquares ==
    (ply > 0 /\ ~LastMoveIsEnPassantOrCastling) =>
        LET moved == prev.squares[last_move.from]
        IN  /\ squares[last_move.from] = None
            /\ squares[last_move.to] =
                   (IF last_move.promotion = NoPromotion THEN moved
                    ELSE Piece(prev.turn, last_move.promotion))
            /\ {i \in Square : squares[i] # prev.squares[i]}
                   = {last_move.from, last_move.to}
            /\ moved.color = prev.turn
            /\ turn = Opposite(prev.turn)

\* A promotion that captures has been made.
PromotionCaptureMade ==
    /\ ply > 0
    /\ last_move.promotion # NoPromotion
    /\ prev.squares[last_move.to] # None
    /\ squares[last_move.to] = Piece(prev.turn, last_move.promotion)

(***************************************************************************)
(* The two pawn generators                                                 *)
(***************************************************************************)
\* The mailbox Board of board.rs that holds the same position.
BoardOf(p) ==
    [squares |-> [i \in Square |->
                     IF p.board[i] = Piece_EMPTY THEN None ELSE p.board[i]],
     turn |-> p.state.side_to_move,
     castling_rights |-> <<"-">>,
     en_passant_target |-> p.state.en_passant]

PromotionOfKind(kind) ==
    CASE kind \in {"QueenPromotion", "QueenPromotionCapture"} -> Queen
      [] kind \in {"RookPromotion", "RookPromotionCapture"} -> Rook
      [] kind \in {"BishopPromotion", "BishopPromotionCapture"} -> Bishop
      [] kind \in {"KnightPromotion", "KnightPromotionCapture"} -> Knight
      [] OTHER -> NoPromotion

\* The moves of the bitboard pawn generator as (from, to, promotion).
BitboardPawnMoves(p) ==
    LET list == generate_pseudo_legal_pawn_moves(p)
    IN  {Move_with_promotion(list[n].from, list[n].to, PromotionOfKind(list[n].kind)) :
             n \in 1..Len(list)}

\* The moves of gen_pawn_moves over every pawn of the side to move.
MailboxPawnMoves(b) ==
    UNION {LET list == gen_pawn_moves(b, i)
           IN  {list[n] : n \in 1..Len(list)} :
               i \in {j \in Square : b.squares[j] = Piece(b.turn, Pawn)}}

\* No pawn on rank 1 or 8, the en-passant square (when set) empty, and the
\* enemy king not attacked by a pawn of the side to move.
PawnsComparable(p) ==
    LET b == BoardOf(p)
    IN  /\ \A i \in Square :
               b.squares[i].piece_type = Pawn => RankOf(i) \notin {0, 7}
        /\ b.en_passant_target # NoSquare => b.squares[b.en_passant_target] = None
        /\ \A k \in KingsOf(b.squares, Opposite(b.turn)) :
               ~PawnAttacks(b.squares, k, b.turn)

\* C30: on such a position the bitboard pawn generator and the mailbox pawn
\* generator, run over every pawn of the side to move, produce the same set
\* of (from, to, promotion) moves.
PawnGeneratorsAgree ==
    (called.op \in {"new", "add_piece"} /\ PawnsComparable(position))
        => BitboardPawnMoves(position) = MailboxPawnMoves(BoardOf(position))

\* A comparable position on which the generators produce an en-passant
\* capture and a double push.
PawnGeneratorsCompared ==
    /\ called.op = "add_piece"
    /\ PawnsComparable(position)
    /\ LET list == generate_pseudo_legal_pawn_moves(position)
       IN  /\ \E n \in 1..Len(list) : list[n].kind = "EnPassantCapture"
           /\ \E n \in 1..Len(list) :
                  list[n].kind = "Quiet" /\ list[n].to - list[n].from \in {16, -16}

=============================================================================
